---- MODULE Spec2Model ----
(***************************************************************************)
(* Crystal Copilot backend: the report life cycle (upload, background      *)
(* parse, status / metadata / query lookups, deletion) over the embedded   *)
(* storage service, and the patch based edit workflow (validate, preview,  *)
(* apply, change log).                                                     *)
(*                                                                         *)
(* Every storage call is one committed transaction and is one atomic step  *)
(* of the model.  A storage write may raise (the code re-raises sqlite     *)
(* errors); a raising write leaves the table unchanged (rollback).         *)
(***************************************************************************)
EXTENDS Integers, Sequences, FiniteSets, TLC

\* ---------------------------------------------------------------- bounds
MaxReports == 1      \* number of report ids ever generated by uploads
MaxPatches == 2      \* longest patch list of one preview/apply request
MaxEntries == 2      \* change-log entries ever created (uuid supply)
MaxBackups == 1      \* backup copies ever made of one report file

\* ------------------------------------------------------ program constants
MAX_FILE_SIZE == 26214400

ReportIds == 1..MaxReports

\* Optional values: None is the empty tuple, Some(x) the one-element tuple.
None == << >>
Some(x) == << x >>

\* ReportStatus enumeration
UPLOADING == "uploading"
PARSING == "parsing"
READY == "ready"
ERROR == "error"
ReportStatus == {UPLOADING, PARSING, READY, ERROR}

ALLOWED_EXTENSIONS == {".rpt"}

\* ------------------------------------------------------------ data model
\* position of a field: x, y, width, height
Position(x, y, width, height) ==
    [x |-> x, y |-> y, width |-> width, height |-> height]

\* ReportField: id, name, display_name (defaults to name), position
\* (defaults to 0), visible, format (defaults to None)
ReportField(id, name, display_name, position, visible, format) ==
    [id |-> id, name |-> name,
     display_name |-> IF display_name = "" THEN name ELSE display_name,
     position |-> position, visible |-> visible, format |-> format]

\* ReportMetadata: sections (each a list of fields), parameters, formulas
ReportMetadata(id, sections, parameters, formulas) ==
    [id |-> id, sections |-> sections, parameters |-> parameters,
     formulas |-> formulas]

\* What the parser can return for a report: one section field F1, visible
\* or hidden (the bridge reports visibility), and one parameter P1.
ParsedMetadatas(id) ==
    { ReportMetadata(id,
                     << << ReportField("F1", "Amount", "", Position(0, 0, 0, 0),
                                       v1, None) >> >>,
                     << ReportField("P1", "Region", "", Position(0, 0, 0, 0),
                                    TRUE, None) >>,
                     << >>) : v1 \in BOOLEAN }

\* model_dump_json / json.loads + ReportMetadata(**dict): every field is
\* rebuilt through the ReportField constructor (display_name validator).
RebuildFields(fs) ==
    [i \in 1..Len(fs) |->
        ReportField(fs[i].id, fs[i].name, fs[i].display_name, fs[i].position,
                    fs[i].visible, fs[i].format)]

RebuildMetadata(m) ==
    ReportMetadata(m.id,
                   [s \in 1..Len(m.sections) |-> RebuildFields(m.sections[s])],
                   RebuildFields(m.parameters),
                   RebuildFields(m.formulas))

VARIABLES
    reports,      \* table reports: id -> row
    change_log,   \* table change_log: rows in insertion order
    files,        \* uploaded report files on disk (by report id)
    backups,      \* number of backup files on disk, per report id
    nextReport,   \* next report id uuid4() hands out
    bg,           \* background parse task of each report: pc and locals
    history,      \* statuses each report row has held since its creation
    edit,         \* the apply request in flight: pc and locals of apply_edits
    nextEntry,    \* next change-log entry id uuid4() hands out
    resp          \* response of the handler that ran in the last step

vars == << reports, change_log, files, backups, nextReport, bg, history,
           edit, nextEntry, resp >>

editVars == << edit, nextEntry >>

NoResp == [op |-> "none", id |-> 0, code |-> 0, detail |-> None,
           status |-> None, metadata |-> None]

Response(op, id, code, detail, status, metadata) ==
    [op |-> op, id |-> id, code |-> code, detail |-> detail,
     status |-> status, metadata |-> metadata]

IdleTask == [pc |-> "idle", metadata |-> None, error |-> None]

IdleEdit == [pc |-> "idle"]

\* ------------------------------------------------------- StorageService
create_report_record(rs, id) ==
    [x \in DOMAIN rs \cup {id} |->
        IF x = id
        THEN [file_path |-> id, status |-> UPLOADING,
              error_message |-> None, metadata_json |-> None]
        ELSE rs[x]]

store_metadata(rs, id, metadata) ==
    [x \in DOMAIN rs |->
        IF x = id THEN [rs[x] EXCEPT !.metadata_json = Some(metadata)]
        ELSE rs[x]]

get_metadata(rs, id) ==
    IF id \notin DOMAIN rs \/ rs[id].metadata_json = None
    THEN None
    ELSE Some(RebuildMetadata(rs[id].metadata_json[1]))

\* a status write that inserts the row when there is none
update_report_status_upsert(rs, id, status, error_message) ==
    [x \in DOMAIN rs \cup {id} |->
        IF x = id
        THEN IF id \in DOMAIN rs
             THEN [rs[x] EXCEPT !.status = status,
                                !.error_message = error_message]
             ELSE [file_path |-> id, status |-> status,
                   error_message |-> error_message, metadata_json |-> None]
        ELSE rs[x]]

update_report_status(rs, id, status, error_message) ==
    [x \in DOMAIN rs |->
        IF x = id
        THEN [rs[x] EXCEPT !.status = status, !.error_message = error_message]
        ELSE rs[x]]

get_report_status(rs, id) ==
    IF id \notin DOMAIN rs
    THEN None
    ELSE Some([report_id |-> id, file_path |-> rs[id].file_path,
               status |-> rs[id].status,
               error_message |-> rs[id].error_message])

\* statuses recorded for the row of id after a write of status
Recorded(h, rs, id, status) ==
    IF id \in DOMAIN rs THEN [h EXCEPT ![id] = @ \cup {status}] ELSE h

\* ------------------------------------------------------ upload endpoint
Filenames == {"", "sales.rpt", "SALES.RPT", "notes.txt"}
FileSizes == {0, 1, MAX_FILE_SIZE, MAX_FILE_SIZE + 1}

\* Path(filename).suffix.lower()
SuffixLower(filename) ==
    CASE filename = "sales.rpt" -> ".rpt"
      [] filename = "SALES.RPT" -> ".rpt"
      [] filename = "notes.txt" -> ".txt"
      [] OTHER -> ""

\* validation of the upload request: 0 when accepted, else the HTTP error
UploadRejection(filename, size) ==
    IF filename = "" THEN 400
    ELSE IF SuffixLower(filename) \notin ALLOWED_EXTENSIONS THEN 400
    ELSE IF size > MAX_FILE_SIZE THEN 413
    ELSE IF size = 0 THEN 400
    ELSE 0

UploadRejected(filename, size) ==
    /\ UploadRejection(filename, size) # 0
    /\ resp' = Response("upload", 0, UploadRejection(filename, size),
                        None, None, None)
    /\ UNCHANGED << reports, change_log, files, backups, nextReport, bg, history, editVars >>

\* file saved, record created, background task scheduled
UploadAccepted(filename, size) ==
    /\ UploadRejection(filename, size) = 0
    /\ nextReport <= MaxReports
    /\ LET id == nextReport IN
        /\ nextReport' = nextReport + 1
        /\ files' = files \cup {id}
        /\ reports' = create_report_record(reports, id)
        /\ history' = [history EXCEPT ![id] = {UPLOADING}]
        /\ bg' = [bg EXCEPT ![id] = [IdleTask EXCEPT !.pc = "scheduled"]]
        /\ resp' = Response("upload", id, 200, None, Some(PARSING), None)
    /\ UNCHANGED << change_log, backups, editVars >>

\* an except branch that leaves the file where it is
UploadCleanupSkipped(fs, id) == fs

\* except branch of upload_report: if file_path.exists(): file_path.unlink()
UploadCleanup(fs, id) == fs \ {id}

\* writing the file raised (written = FALSE, nothing or a part of it is on
\* disk) or creating the record raised (written = TRUE, the INSERT was not
\* committed): the file is removed and the request answers 500
UploadFailed(filename, size) ==
    /\ UploadRejection(filename, size) = 0
    /\ nextReport <= MaxReports
    /\ nextReport' = nextReport + 1
    /\ \E written \in BOOLEAN :
          files' = UploadCleanup(IF written THEN files \cup {nextReport}
                                 ELSE files, nextReport)
    /\ resp' = Response("upload", 0, 500, Some("Upload failed"), None, None)
    /\ UNCHANGED << reports, change_log, backups, bg, history, editVars >>

upload_report ==
    \E filename \in Filenames, size \in FileSizes :
        \/ UploadRejected(filename, size)
        \/ UploadAccepted(filename, size)
        \/ UploadFailed(filename, size)

\* --------------------------------------------- process_report_background
\* the scheduled task starts and awaits the parser
BgStart(id) ==
    /\ bg[id].pc = "scheduled"
    /\ bg' = [bg EXCEPT ![id].pc = "parsing"]
    /\ resp' = NoResp
    /\ UNCHANGED << reports, change_log, files, backups, nextReport, history, editVars >>

\* parser.parse_report returns metadata
BgParseOk(id) ==
    /\ bg[id].pc = "parsing"
    /\ \E m \in ParsedMetadatas(id) :
          bg' = [bg EXCEPT ![id].pc = "parsed", ![id].metadata = Some(m)]
    /\ resp' = NoResp
    /\ UNCHANGED << reports, change_log, files, backups, nextReport, history, editVars >>

\* parser.parse_report raises
BgParseFail(id) ==
    /\ bg[id].pc = "parsing"
    /\ bg' = [bg EXCEPT ![id].pc = "failing", ![id].error = Some("parse failed")]
    /\ resp' = NoResp
    /\ UNCHANGED << reports, change_log, files, backups, nextReport, history, editVars >>

\* storage.store_metadata(report_id, metadata)
BgStoreMetadata(id) ==
    /\ bg[id].pc = "parsed"
    /\ \/ /\ reports' = store_metadata(reports, id, bg[id].metadata[1])
          /\ bg' = [bg EXCEPT ![id].pc = "stored"]
       \/ /\ bg' = [bg EXCEPT ![id].pc = "failing",
                              ![id].error = Some("store failed")]
          /\ UNCHANGED reports
    /\ resp' = NoResp
    /\ UNCHANGED << change_log, files, backups, nextReport, history, editVars >>

\* storage.update_report_status(report_id, READY)
BgSetReady(id) ==
    /\ bg[id].pc = "stored"
    /\ \/ /\ reports' = update_report_status(reports, id, READY, None)
          /\ history' = Recorded(history, reports, id, READY)
          /\ bg' = [bg EXCEPT ![id].pc = "readied"]
       \/ /\ bg' = [bg EXCEPT ![id].pc = "failing",
                              ![id].error = Some("update failed")]
          /\ UNCHANGED << reports, history >>
    /\ resp' = NoResp
    /\ UNCHANGED << change_log, files, backups, nextReport, editVars >>

\* file_path.stat() of the success log: raises OSError when the file is
\* missing or cannot be read
FileStatOk(fs, id, readable) == id \in fs /\ readable

\* the success log after the READY write, still inside the try block
BgLogSuccess(id) ==
    /\ bg[id].pc = "readied"
    /\ \E readable \in BOOLEAN :
          bg' = IF FileStatOk(files, id, readable)
                THEN [bg EXCEPT ![id].pc = "done"]
                ELSE [bg EXCEPT ![id].pc = "failing",
                                ![id].error = Some("stat failed")]
    /\ resp' = NoResp
    /\ UNCHANGED << reports, change_log, files, backups, nextReport, history, editVars >>

\* except branch: storage.update_report_status(report_id, ERROR, error_msg);
\* when that write raises too, the exception leaves the task
BgSetError(id) ==
    /\ bg[id].pc = "failing"
    /\ \/ /\ reports' = update_report_status(reports, id, ERROR, bg[id].error)
          /\ history' = Recorded(history, reports, id, ERROR)
          /\ bg' = [bg EXCEPT ![id].pc = "done"]
       \/ /\ bg' = [bg EXCEPT ![id].pc = "crashed"]
          /\ UNCHANGED << reports, history >>
    /\ resp' = NoResp
    /\ UNCHANGED << change_log, files, backups, nextReport, editVars >>

process_report_background ==
    \E id \in ReportIds :
        \/ BgStart(id)
        \/ BgParseOk(id)
        \/ BgParseFail(id)
        \/ BgStoreMetadata(id)
        \/ BgSetReady(id)
        \/ BgLogSuccess(id)
        \/ BgSetError(id)

\* ------------------------------------------------------ status lookups
\* GET /upload/status/{report_id}
get_upload_status ==
    \E id \in ReportIds :
        /\ resp' = LET info == get_report_status(reports, id) IN
                   IF info = None
                   THEN Response("status", id, 404, Some("Report not found"),
                                 None, None)
                   ELSE Response("status", id, 200, info[1].error_message,
                                 Some(info[1].status), None)
        /\ UNCHANGED << reports, change_log, files, backups, nextReport, bg, history, editVars >>

\* GET /reports/{report_id}
get_report_info ==
    \E id \in ReportIds :
        /\ resp' = LET report_info == get_report_status(reports, id) IN
                   IF report_info = None
                   THEN Response("info", id, 404, Some("Report not found"),
                                 None, None)
                   ELSE Response("info", id, 200, report_info[1].error_message,
                                 Some(report_info[1].status), None)
        /\ UNCHANGED << reports, change_log, files, backups, nextReport, bg, history, editVars >>

\* a lookup that takes a missing row for a report that is still processed
NoMetadataResponseRetry(op, rs, id) ==
    LET info == get_report_status(rs, id) IN
    IF info = None \/ info[1].status = PARSING
    THEN Response(op, id, 202, Some("Report is still being processed"),
                  Some(PARSING), None)
    ELSE IF info[1].status = ERROR
    THEN Response(op, id, 422, info[1].error_message,
                  Some(info[1].status), None)
    ELSE Response(op, id, 404, Some("Report metadata not available"),
                  Some(info[1].status), None)

\* the branch both get_report_metadata and query_report take when
\* storage.get_metadata returned nothing
NoMetadataResponse(op, rs, id) ==
    LET info == get_report_status(rs, id) IN
    IF info = None
    THEN Response(op, id, 404, Some("Report not found"), None, None)
    ELSE IF info[1].status = PARSING
    THEN Response(op, id, 202, Some("Report is still being processed"),
                  Some(info[1].status), None)
    ELSE IF info[1].status = ERROR
    THEN Response(op, id, 422, info[1].error_message,
                  Some(info[1].status), None)
    ELSE Response(op, id, 404, Some("Report metadata not available"),
                  Some(info[1].status), None)

\* GET /reports/{report_id}/metadata
get_report_metadata ==
    \E id \in ReportIds :
        /\ resp' = LET metadata == get_metadata(reports, id) IN
                   IF metadata = None
                   THEN NoMetadataResponse("metadata", reports, id)
                   ELSE Response("metadata", id, 200, None,
                                 Some(reports[id].status), metadata)
        /\ UNCHANGED << reports, change_log, files, backups, nextReport, bg, history, editVars >>

\* POST /query/{report_id}: the language-model call answers or raises
query_report ==
    \E id \in ReportIds, answered \in BOOLEAN :
        /\ resp' = LET metadata == get_metadata(reports, id) IN
                   IF metadata = None
                   THEN NoMetadataResponse("query", reports, id)
                   ELSE IF answered
                   THEN Response("query", id, 200, None,
                                 Some(reports[id].status), metadata)
                   ELSE Response("query", id, 500,
                                 Some("Query processing failed"),
                                 Some(reports[id].status), None)
        /\ UNCHANGED << reports, change_log, files, backups, nextReport, bg, history, editVars >>

\* --------------------------------------------------------------- deletion
DeleteRows(rs, id) == [x \in DOMAIN rs \ {id} |-> rs[x]]

\* a deletion that leaves the change_log table alone
DeleteChangeLogKept(log, id) == log

\* DELETE FROM change_log WHERE report_id = ?
DeleteChangeLog(log, id) == SelectSeq(log, LAMBDA e : e.report_id # id)

\* StorageService.delete_report and the DELETE endpoint on top of it:
\* "missing" no row; "deleted" rows and file removed; "db_error" a statement
\* raised and nothing was committed; "unlink_error" the rows were committed
\* and removing the file raised.
DeleteOutcomes(rs, id) ==
    IF id \notin DOMAIN rs THEN {"missing"}
    ELSE {"deleted", "db_error", "unlink_error"}

delete_report ==
    \E id \in ReportIds :
        \E outcome \in DeleteOutcomes(reports, id) :
            /\ reports' = IF outcome \in {"deleted", "unlink_error"}
                          THEN DeleteRows(reports, id) ELSE reports
            /\ change_log' = IF outcome \in {"deleted", "unlink_error"}
                             THEN DeleteChangeLog(change_log, id)
                             ELSE change_log
            /\ files' = IF outcome = "deleted" THEN files \ {id} ELSE files
            /\ resp' = IF outcome = "deleted"
                       THEN Response("delete", id, 200, None, None, None)
                       ELSE Response("delete", id, 404,
                                     Some("Report not found"), None, None)
            /\ UNCHANGED << backups, nextReport, bg, history, editVars >>

\* ---------------------------------------------------------- life cycle
Init ==
    /\ reports = << >>
    /\ change_log = << >>
    /\ files = {}
    /\ backups = [id \in ReportIds |-> 0]
    /\ nextReport = 1
    /\ bg = [id \in ReportIds |-> IdleTask]
    /\ history = [id \in ReportIds |-> {}]
    /\ edit = IdleEdit
    /\ nextEntry = 1
    /\ resp = NoResp

Next ==
    \/ upload_report
    \/ process_report_background
    \/ get_upload_status
    \/ get_report_info
    \/ get_report_metadata
    \/ query_report
    \/ delete_report

Spec == Init /\ [][Next]_vars

\* ============================================================ EditService
EditPatchOperation ==
    {"hide", "show", "move", "rename", "resize", "format", "delete"}

EditPatch(id, operation, target_field_id, new_name, new_position, new_format) ==
    [id |-> id, operation |-> operation, target_field_id |-> target_field_id,
     new_name |-> new_name, new_position |-> new_position,
     new_format |-> new_format]

\* Python truthiness of an optional string
Truthy(opt) == opt # None /\ opt[1] # ""

RECURSIVE Concat(_)
Concat(seqs) ==
    IF seqs = << >> THEN << >> ELSE Head(seqs) \o Concat(Tail(seqs))

\* index of the first field of fs whose id is field_id, 0 when there is none
FirstIndex(fs, field_id) ==
    IF \E i \in 1..Len(fs) : fs[i].id = field_id
    THEN CHOOSE i \in 1..Len(fs) :
            /\ fs[i].id = field_id
            /\ \A j \in 1..(i - 1) : fs[j].id # field_id
    ELSE 0

FindIn(fs, field_id) ==
    IF FirstIndex(fs, field_id) = 0 THEN None
    ELSE Some(fs[FirstIndex(fs, field_id)])

\* search order: section fields, then parameters, then formulas
_find_field_by_id(metadata, field_id) ==
    FindIn(Concat(metadata.sections) \o metadata.parameters \o metadata.formulas,
           field_id)

\* a validation that does not look the target field up
PatchErrorsNoLookup(metadata, patch) ==
    IF patch.operation = "rename" /\ ~Truthy(patch.new_name)
    THEN << [error |-> "new_name required", patch |-> patch.id] >>
    ELSE << >>

\* the errors _validate_patches appends for one patch
PatchErrors(metadata, patch) ==
    IF _find_field_by_id(metadata, patch.target_field_id) = None
    THEN << [error |-> "Field not found", field |-> patch.target_field_id] >>
    ELSE IF patch.operation = "rename" /\ ~Truthy(patch.new_name)
    THEN << [error |-> "new_name required", patch |-> patch.id] >>
    ELSE IF patch.operation \in {"move", "resize"} /\ patch.new_position = None
    THEN << [error |-> "new_position required", patch |-> patch.id] >>
    ELSE IF patch.operation = "format" /\ patch.new_format = None
    THEN << [error |-> "new_format required", patch |-> patch.id] >>
    ELSE << >>

_validate_patches(metadata, patches) ==
    Concat([i \in 1..Len(patches) |-> PatchErrors(metadata, patches[i])])

\* a show that restores nothing: only hide touches the visibility
_apply_patch_to_field_hide_only(field, patch) ==
    IF patch.operation = "hide" THEN [field EXCEPT !.visible = FALSE] ELSE field

_apply_patch_to_field(field, patch) ==
    CASE patch.operation = "hide" -> [field EXCEPT !.visible = FALSE]
      [] patch.operation = "show" -> [field EXCEPT !.visible = TRUE]
      [] patch.operation = "rename" ->
            IF Truthy(patch.new_name)
            THEN [field EXCEPT !.display_name = patch.new_name[1]]
            ELSE field
      [] patch.operation \in {"move", "resize"} ->
            IF patch.new_position # None
            THEN [field EXCEPT !.position = patch.new_position[1]]
            ELSE field
      [] patch.operation = "format" ->
            IF patch.new_format # None
            THEN [field EXCEPT !.format = patch.new_format]
            ELSE field
      [] OTHER -> field

\* the first field with the target id in one list is patched
PatchFirst(fs, patch) ==
    IF FirstIndex(fs, patch.target_field_id) = 0 THEN fs
    ELSE [fs EXCEPT ![FirstIndex(fs, patch.target_field_id)] =
                        _apply_patch_to_field(@, patch)]

\* one patch: every section, then the parameters, then the formulas
PatchMetadata(metadata, patch) ==
    [metadata EXCEPT
        !.sections = [s \in 1..Len(metadata.sections) |->
                         PatchFirst(metadata.sections[s], patch)],
        !.parameters = PatchFirst(metadata.parameters, patch),
        !.formulas = PatchFirst(metadata.formulas, patch)]

RECURSIVE PatchAll(_, _)
PatchAll(metadata, patches) ==
    IF patches = << >> THEN metadata
    ELSE PatchAll(PatchMetadata(metadata, Head(patches)), Tail(patches))

\* patches are applied, in order, to a rebuilt copy of the metadata
_apply_patches_to_metadata(metadata, patches) ==
    PatchAll(RebuildMetadata(metadata), patches)

\* before / after snapshot of a change-log entry
BeforeValue(field, patch) ==
    CASE patch.operation \in {"hide", "show"} -> Some([visible |-> field.visible])
      [] patch.operation = "rename" -> Some([display_name |-> field.display_name])
      [] patch.operation \in {"move", "resize"} -> Some(field.position)
      [] patch.operation = "format" -> field.format
      [] OTHER -> None

AfterValue(field, patch) ==
    CASE patch.operation = "hide" -> Some([visible |-> FALSE])
      [] patch.operation = "show" -> Some([visible |-> TRUE])
      [] patch.operation = "rename" -> Some([display_name |-> patch.new_name])
      [] patch.operation \in {"move", "resize"} -> patch.new_position
      [] patch.operation = "format" -> patch.new_format
      [] OTHER -> None

\* ChangeLogEntry: an audit row; timestamp is the clock reading at creation
ChangeLogEntry(id, report_id, patch_id, operation, field_name, field_id, before_value, after_value, timestamp, success, error_message) ==
    [id |-> id, report_id |-> report_id, patch_id |-> patch_id,
     operation |-> operation, field_name |-> field_name, field_id |-> field_id,
     before_value |-> before_value, after_value |-> after_value,
     timestamp |-> timestamp, success |-> success,
     error_message |-> error_message]

\* the entry is created with a fresh id and the current time; the clock of
\* the sequential apply workflow ticks with every entry
_create_change_log_entry(entry_id, metadata, patch, success, error_message) ==
    LET field == _find_field_by_id(metadata, patch.target_field_id) IN
    ChangeLogEntry(entry_id, metadata.id, patch.id, patch.operation,
        IF field = None THEN "Unknown" ELSE field[1].name,
        patch.target_field_id,
        IF field = None THEN None ELSE BeforeValue(field[1], patch),
        IF field = None THEN None ELSE AfterValue(field[1], patch),
        entry_id, success, error_message)

ApplyEditsResponse(success, applied_patches, failed_patches, backup_path, change_log_entries) ==
    [success |-> success, applied_patches |-> applied_patches,
     failed_patches |-> failed_patches, backup_path |-> backup_path,
     change_log_entries |-> change_log_entries]

\* an insert that replaces the earlier rows of the same patch id
add_change_log_entry_upsert(log, entry) ==
    Append(SelectSeq(log, LAMBDA e : e.patch_id # entry.patch_id), entry)

\* StorageService.add_change_log_entry: INSERT of one row
add_change_log_entry(log, entry) == Append(log, entry)

RECURSIVE PersistEntries(_, _)
PersistEntries(log, entries) ==
    IF entries = << >> THEN log
    ELSE PersistEntries(add_change_log_entry(log, Head(entries)), Tail(entries))

\* ----------------------------------------------------- edit endpoints
\* the patches a client sends: hide / show of the section field F1 and of
\* the parameter P1, hide of an unknown field ZZ, rename of P1 with and
\* without a name
HidePatch(target_field_id) ==
    [operation |-> "hide", target_field_id |-> target_field_id, new_name |-> None]

ShowPatch(target_field_id) ==
    [operation |-> "show", target_field_id |-> target_field_id, new_name |-> None]

RenamePatch(target_field_id, new_name) ==
    [operation |-> "rename", target_field_id |-> target_field_id,
     new_name |-> new_name]

PatchChoices ==
    { HidePatch("F1"), ShowPatch("F1"), HidePatch("P1"), ShowPatch("P1"),
      HidePatch("ZZ"), RenamePatch("P1", None), RenamePatch("P1", Some("Area")) }

\* patch lists of a request; the id of a patch is its place in the list
ListsOver(choices) ==
    UNION { { [i \in 1..n |->
                 EditPatch(i, c[i].operation, c[i].target_field_id,
                           c[i].new_name, None, None)] :
              c \in [1..n -> choices] } : n \in 0..MaxPatches }

PatchLists == ListsOver(PatchChoices)

\* the lists of the clients that hide the field F1 and an unknown field ZZ
MixedPatchLists == ListsOver({ HidePatch("F1"), HidePatch("ZZ") })

\* the lists of the clients that only hide and show the field F1
FieldPatchLists == ListsOver({ HidePatch("F1"), ShowPatch("F1") })

\* response of an edit endpoint, with the request (patches) it answers and
\* the ids of the patches whose mutation call raised during the request
EditResponse(op, id, code, logged, errors, patches, raised, result) ==
    [op |-> op, id |-> id, code |-> code, logged |-> logged,
     errors |-> errors, patches |-> patches, raised |-> raised,
     result |-> result]

editFrame == << reports, change_log, files, backups, nextReport, bg, history,
                edit, nextEntry >>

\* a preview that patches the metadata object it was handed, not a copy
PreviewResponseInPlace(rs, id, patches) ==
    LET metadata == get_metadata(rs, id) IN
    IF metadata = None
    THEN EditResponse("preview", id, 404, 404, << >>, << >>, {}, None)
    ELSE LET errors == _validate_patches(metadata[1], patches) IN
         IF errors # << >>
         THEN EditResponse("preview", id, 500, 500, errors, patches, {}, None)
         ELSE EditResponse("preview", id, 200, 200, << >>, patches, {},
                  Some([metadata |->
                            _apply_patches_to_metadata(metadata[1], patches),
                        preview_metadata |->
                            _apply_patches_to_metadata(metadata[1], patches)]))

\* POST /edit/{report_id}/preview
PreviewResponse(rs, id, patches) ==
    LET metadata == get_metadata(rs, id) IN
    IF metadata = None
    THEN EditResponse("preview", id, 404, 404, << >>, << >>, {}, None)
    ELSE LET errors == _validate_patches(metadata[1], patches) IN
         IF errors # << >>
         THEN EditResponse("preview", id, 500, 500, errors, patches, {}, None)
         ELSE EditResponse("preview", id, 200, 200, << >>, patches, {},
                  Some([metadata |-> metadata[1],
                        preview_metadata |->
                            _apply_patches_to_metadata(metadata[1], patches)]))

preview_edits ==
    \E id \in ReportIds, patches \in PatchLists :
        /\ resp' = PreviewResponse(reports, id, patches)
        /\ UNCHANGED editFrame

\* what the caller of the apply handler answers.  The apply endpoint (via =
\* "apply") answers r itself.  hide-field and rename-field answer 200 with
\* the success of the result, and 500 whenever the apply handler raised (its
\* 404 included); move-field re-raises the HTTP error of the apply handler.
QuickResponse(via, r) ==
    IF via = "apply" THEN r
    ELSE IF r.result # None THEN [r EXCEPT !.op = via, !.code = 200]
    ELSE IF via = "move-field" THEN [r EXCEPT !.op = via]
    ELSE [r EXCEPT !.op = via, !.code = 500]

\* the end of the apply endpoint: the entries of the result are inserted one
\* by one; the insert after the first `stored` ones raises when stored is
\* less than their number, and the handler answers 500.  The result itself
\* is returned with the default status; the 200 / 422 is what is logged.
ApplyFinish(via, id, patches, raised, result, errors, stored) ==
    /\ change_log' = PersistEntries(change_log,
                         SubSeq(result.change_log_entries, 1, stored))
    /\ resp' = QuickResponse(via,
                   IF stored = Len(result.change_log_entries)
                   THEN EditResponse("apply", id, 200,
                                     IF result.success THEN 200 ELSE 422,
                                     errors, patches, raised, Some(result))
                   ELSE EditResponse("apply", id, 500, 500, << >>, patches,
                                     raised, None))
    /\ edit' = IdleEdit

\* POST /edit/{report_id}/apply, no metadata stored for the report
ApplyNotFoundVia(via, id) ==
    /\ edit.pc = "idle"
    /\ get_metadata(reports, id) = None
    /\ resp' = QuickResponse(via,
                   EditResponse("apply", id, 404, 404, << >>, << >>, {}, None))
    /\ UNCHANGED editFrame

ApplyNotFound(id) == ApplyNotFoundVia("apply", id)

\* validation fails: apply_edits returns the failure from its except branch
ApplyInvalidVia(via, id, patches) ==
    /\ edit.pc = "idle"
    /\ get_metadata(reports, id) # None
    /\ LET metadata == get_metadata(reports, id)[1]
           errors == _validate_patches(metadata, patches)
       IN /\ errors # << >>
          /\ ApplyFinish(via, id, patches, {},
                 ApplyEditsResponse(FALSE, << >>,
                     << [patch_id |-> 0, error |-> "Patch validation failed"] >>,
                     None, << >>),
                 errors, 0)
    /\ UNCHANGED << reports, files, backups, nextReport, bg, history, nextEntry >>

ApplyInvalid(id, patches) == ApplyInvalidVia("apply", id, patches)

\* a dry run that copies the report file like a real apply
ApplyDryRunWithBackup(id, patches) ==
    /\ edit.pc = "idle"
    /\ get_metadata(reports, id) # None
    /\ nextEntry + Len(patches) <= MaxEntries + 1
    /\ backups[id] < MaxBackups
    /\ LET metadata == get_metadata(reports, id)[1]
           entries == [i \in 1..Len(patches) |->
                          _create_change_log_entry(nextEntry + i - 1, metadata,
                                                   patches[i], TRUE, None)]
       IN /\ _validate_patches(metadata, patches) = << >>
          /\ \E stored \in 0..Len(patches) :
                ApplyFinish("apply", id, patches, {},
                    ApplyEditsResponse(TRUE,
                        [i \in 1..Len(patches) |-> patches[i].id],
                        << >>, Some(backups[id] + 1), entries),
                    << >>, stored)
    /\ nextEntry' = nextEntry + Len(patches)
    /\ backups' = [backups EXCEPT ![id] = @ + 1]
    /\ UNCHANGED << reports, files, nextReport, bg, history >>

\* dry run: no backup, no mutation call, one successful entry per patch
ApplyDryRun(id, patches) ==
    /\ edit.pc = "idle"
    /\ get_metadata(reports, id) # None
    /\ nextEntry + Len(patches) <= MaxEntries + 1
    /\ LET metadata == get_metadata(reports, id)[1]
           entries == [i \in 1..Len(patches) |->
                          _create_change_log_entry(nextEntry + i - 1, metadata,
                                                   patches[i], TRUE, None)]
       IN /\ _validate_patches(metadata, patches) = << >>
          /\ \E stored \in 0..Len(patches) :
                ApplyFinish("apply", id, patches, {},
                    ApplyEditsResponse(TRUE,
                        [i \in 1..Len(patches) |-> patches[i].id],
                        << >>, None, entries),
                    << >>, stored)
    /\ nextEntry' = nextEntry + Len(patches)
    /\ UNCHANGED << reports, files, backups, nextReport, bg, history >>

\* the file is copied when create_backup is set and the file exists
BackupTaken(fs, id, create_backup) == create_backup /\ id \in fs

\* not a dry run: validation passes, the backup is taken, and the handler
\* awaits the mutation of the first patch (it finishes at once when the
\* list is empty)
ApplyStartVia(via, id, patches, create_backup) ==
    /\ edit.pc = "idle"
    /\ get_metadata(reports, id) # None
    /\ nextEntry + Len(patches) <= MaxEntries + 1
    /\ BackupTaken(files, id, create_backup) => backups[id] < MaxBackups
    /\ LET metadata == get_metadata(reports, id)[1]
           backup_path == IF BackupTaken(files, id, create_backup)
                          THEN Some(backups[id] + 1) ELSE None
       IN /\ _validate_patches(metadata, patches) = << >>
          /\ backups' = IF BackupTaken(files, id, create_backup)
                        THEN [backups EXCEPT ![id] = @ + 1] ELSE backups
          /\ IF patches = << >>
             THEN ApplyFinish(via, id, patches, {},
                      ApplyEditsResponse(TRUE, << >>, << >>, backup_path, << >>),
                      << >>, 0)
             ELSE /\ edit' = [pc |-> "applying", via |-> via, report_id |-> id,
                              patches |-> patches, metadata |-> metadata,
                              i |-> 1, raised |-> {},
                              applied_patches |-> << >>,
                              failed_patches |-> << >>,
                              change_log_entries |-> << >>,
                              backup_path |-> backup_path]
                  /\ resp' = NoResp
                  /\ UNCHANGED change_log
    /\ UNCHANGED << reports, files, nextReport, bg, history, nextEntry >>

ApplyStart(id, patches, create_backup) ==
    ApplyStartVia("apply", id, patches, create_backup)

\* a loop that writes no entry for a patch that failed
AfterPatchNoFailureEntry(e, entry_id, ok) ==
    LET patch == e.patches[e.i] IN
    [e EXCEPT
        !.i = @ + 1,
        !.raised = IF ok THEN @ ELSE @ \cup {patch.id},
        !.applied_patches = IF ok THEN Append(@, patch.id) ELSE @,
        !.failed_patches =
            IF ok THEN @
            ELSE Append(@, [patch_id |-> patch.id, error |-> "patch failed"]),
        !.change_log_entries =
            IF ok
            THEN Append(@, _create_change_log_entry(entry_id, e.metadata, patch,
                                                    TRUE, None))
            ELSE @]

\* a failure that discards what the earlier patches recorded
AfterPatchFailureResets(e, entry_id, ok) ==
    LET patch == e.patches[e.i] IN
    [e EXCEPT
        !.i = @ + 1,
        !.raised = IF ok THEN @ ELSE @ \cup {patch.id},
        !.applied_patches = IF ok THEN Append(@, patch.id) ELSE << >>,
        !.failed_patches =
            IF ok THEN @
            ELSE Append(@, [patch_id |-> patch.id, error |-> "patch failed"]),
        !.change_log_entries =
            IF ok
            THEN Append(@, _create_change_log_entry(entry_id, e.metadata, patch,
                                                    TRUE, None))
            ELSE << _create_change_log_entry(entry_id, e.metadata, patch,
                                             FALSE, Some("patch failed")) >>]

\* a loop that carries the patched field state over to the next patch
AfterPatchWritesBack(e, entry_id, ok) ==
    LET patch == e.patches[e.i] IN
    [e EXCEPT
        !.i = @ + 1,
        !.raised = IF ok THEN @ ELSE @ \cup {patch.id},
        !.metadata = IF ok THEN _apply_patches_to_metadata(@, << patch >>) ELSE @,
        !.applied_patches = IF ok THEN Append(@, patch.id) ELSE @,
        !.failed_patches =
            IF ok THEN @
            ELSE Append(@, [patch_id |-> patch.id, error |-> "patch failed"]),
        !.change_log_entries =
            Append(@, _create_change_log_entry(entry_id, e.metadata, patch, ok,
                          IF ok THEN None ELSE Some("patch failed")))]

\* locals of apply_edits after patch edit.i was attempted: the mutation call
\* returned (ok) or raised
AfterPatch(e, entry_id, ok) ==
    LET patch == e.patches[e.i] IN
    [e EXCEPT
        !.i = @ + 1,
        !.raised = IF ok THEN @ ELSE @ \cup {patch.id},
        !.applied_patches = IF ok THEN Append(@, patch.id) ELSE @,
        !.failed_patches =
            IF ok THEN @
            ELSE Append(@, [patch_id |-> patch.id, error |-> "patch failed"]),
        !.change_log_entries =
            Append(@, _create_change_log_entry(entry_id, e.metadata, patch, ok,
                          IF ok THEN None ELSE Some("patch failed")))]

\* a patch other than the last one is attempted
ApplyPatch ==
    /\ edit.pc = "applying"
    /\ edit.i < Len(edit.patches)
    /\ \E ok \in BOOLEAN : edit' = AfterPatch(edit, nextEntry, ok)
    /\ nextEntry' = nextEntry + 1
    /\ resp' = NoResp
    /\ UNCHANGED << reports, change_log, files, backups, nextReport, bg, history >>

\* the last patch is attempted, apply_edits returns and the endpoint ends
ApplyLastPatch ==
    /\ edit.pc = "applying"
    /\ edit.i = Len(edit.patches)
    /\ \E ok \in BOOLEAN :
          LET e == AfterPatch(edit, nextEntry, ok) IN
          \E stored \in 0..Len(e.change_log_entries) :
              ApplyFinish(e.via, e.report_id, e.patches, e.raised,
                  ApplyEditsResponse(Len(e.failed_patches) = 0,
                      e.applied_patches, e.failed_patches, e.backup_path,
                      e.change_log_entries),
                  << >>, stored)
    /\ nextEntry' = nextEntry + 1
    /\ UNCHANGED << reports, files, backups, nextReport, bg, history >>

\* -------------------------------------------------- the edit workflow
\* starts from a report whose upload and parse have completed
InitEdit ==
    /\ \E m \in ParsedMetadatas(1) :
          reports = store_metadata(
                        update_report_status(
                            create_report_record(<< >>, 1), 1, READY, None),
                        1, m)
    /\ change_log = << >>
    /\ files = {1}
    /\ backups = [id \in ReportIds |-> 0]
    /\ nextReport = 2
    /\ bg = [id \in ReportIds |->
                IF id = 1 THEN [IdleTask EXCEPT !.pc = "done"] ELSE IdleTask]
    /\ history = [id \in ReportIds |->
                     IF id = 1 THEN {UPLOADING, READY} ELSE {}]
    /\ edit = IdleEdit
    /\ nextEntry = 1
    /\ resp = NoResp

\* clients hide and show the field F1, look the status up and delete
NextEdit ==
    \/ \E id \in ReportIds : ApplyNotFound(id)
    \/ \E id \in ReportIds, patches \in FieldPatchLists :
          ApplyDryRun(id, patches)
    \/ \E id \in ReportIds, patches \in FieldPatchLists,
          create_backup \in BOOLEAN : ApplyStart(id, patches, create_backup)
    \/ ApplyPatch
    \/ ApplyLastPatch
    \/ delete_report
    \/ get_upload_status

SpecEdit == InitEdit /\ [][NextEdit]_vars

\* ------------------------------------------- validation and preview
\* clients preview any patch list, try to apply lists that fail validation,
\* and apply lists that hide F1 or an unknown field
NextPreview ==
    \/ preview_edits
    \/ \E id \in ReportIds : ApplyNotFound(id)
    \/ \E id \in ReportIds, patches \in PatchLists : ApplyInvalid(id, patches)
    \/ \E id \in ReportIds, patches \in MixedPatchLists :
          ApplyDryRun(id, patches)
    \/ \E id \in ReportIds, patches \in MixedPatchLists,
          create_backup \in BOOLEAN : ApplyStart(id, patches, create_backup)
    \/ ApplyPatch
    \/ ApplyLastPatch
    \/ delete_report
    \/ get_report_metadata

SpecPreview == InitEdit /\ [][NextPreview]_vars

\* ================================================================ claims
\* the background task of id has started and has not ended
Processing(id) ==
    bg[id].pc \in {"parsing", "parsed", "stored", "readied", "failing"}

\* C1: a report row has status uploading until its background task starts,
\* holds status parsing once the task has started, and reaches ready or
\* error only after it held parsing.
C1_StatusLifecycle ==
    \A id \in DOMAIN reports :
        /\ bg[id].pc = "scheduled" => reports[id].status = UPLOADING
        /\ Processing(id) => PARSING \in history[id]
        /\ reports[id].status \in {READY, ERROR} => PARSING \in history[id]

\* C2: while the row of a report exists, a status of ready or error never
\* changes again, and no report has held both ready and error.
C2_TerminalExclusive ==
    [][\A id \in ReportIds :
          /\ ( /\ id \in DOMAIN reports
               /\ id \in DOMAIN reports'
               /\ reports[id].status \in {READY, ERROR} )
             => reports'[id].status = reports[id].status
          /\ ~({READY, ERROR} \subseteq history'[id])]_vars

\* C3: a row holds metadata only if its status is ready, and a row without
\* metadata has status parsing or error.
C3_MetadataOnlyWhenReady ==
    \A id \in DOMAIN reports :
        /\ reports[id].metadata_json # None => reports[id].status = READY
        /\ reports[id].metadata_json = None
              => reports[id].status \in {PARSING, ERROR}

\* C4: for a report that exists, the metadata and the query endpoint answer
\* 202 while the background task has not ended, 422 with the stored error
\* message after a failed parse, the metadata or the answer after a
\* successful parse, and never 404 while the report is being processed.
C4_MetadataGating ==
    (resp.op \in {"metadata", "query"} /\ resp.id \in DOMAIN reports) =>
        LET id == resp.id IN
        /\ (bg[id].pc = "scheduled" \/ Processing(id)) => resp.code = 202
        /\ (bg[id].pc = "done" /\ reports[id].status = ERROR)
              => (resp.code = 422 /\ resp.detail = reports[id].error_message)
        /\ (bg[id].pc = "done" /\ reports[id].status = READY)
              => (resp.code = 200 \/ (resp.op = "query" /\ resp.code = 500))

FieldIds(metadata) ==
    LET fs == Concat(metadata.sections) \o metadata.parameters
                  \o metadata.formulas
    IN { fs[i].id : i \in 1..Len(fs) }

\* the target of the patch is no field of the report
TargetMissing(metadata, patch) == patch.target_field_id \notin FieldIds(metadata)

\* the patch violates a rule of the validation
Invalid(metadata, patch) ==
    \/ TargetMissing(metadata, patch)
    \/ patch.operation = "rename" /\ patch.new_name \in {None, Some("")}

\* C6: a preview or apply request on a processed report with at least one
\* patch that fails validation is answered with a failure that names every
\* target field that does not exist, applies no patch, reports no backup and
\* no change-log entry, and leaves the report rows, the change log, the
\* files and the backups as they were.
C6_ValidationAtomic ==
    [][( /\ resp'.op \in {"preview", "apply"}
         /\ get_metadata(reports, resp'.id) # None
         /\ \E i \in 1..Len(resp'.patches) :
               Invalid(get_metadata(reports, resp'.id)[1], resp'.patches[i]) )
       => LET metadata == get_metadata(reports, resp'.id)[1]
              r == resp'
          IN /\ r.op = "preview" => (r.code # 200 /\ r.result = None)
             /\ r.op = "apply" =>
                   /\ r.result # None
                   /\ ~r.result[1].success
                   /\ r.result[1].applied_patches = << >>
                   /\ r.result[1].failed_patches # << >>
                   /\ r.result[1].change_log_entries = << >>
                   /\ r.result[1].backup_path = None
             /\ \A i \in 1..Len(r.patches) :
                   TargetMissing(metadata, r.patches[i]) =>
                       \E e \in 1..Len(r.errors) :
                           r.errors[e] = [error |-> "Field not found",
                                          field |-> r.patches[i].target_field_id]
             /\ UNCHANGED << reports, change_log, files, backups, nextEntry >>
      ]_vars

\* C6 witness: an apply request whose first patch is valid and whose second
\* patch targets an unknown field was answered with the failure
C6_Witness ==
    /\ resp.op = "apply"
    /\ resp.result # None
    /\ Len(resp.patches) = 2
    /\ resp.patches[1].target_field_id = "F1"
    /\ resp.patches[2].target_field_id = "ZZ"
    /\ resp.errors = << [error |-> "Field not found", field |-> "ZZ"] >>
    /\ ~resp.result[1].success

\* C7: the apply endpoint answers a returned result with HTTP 200 exactly
\* when its success is true and with HTTP 422 when a patch failed.
C7_ApplyHttpStatus ==
    (resp.op = "apply" /\ resp.result # None) =>
        /\ resp.result[1].success => resp.code = 200
        /\ ~resp.result[1].success => resp.code = 422

\* the request of a preview response is [hide f, show f] for one field f
HideThenShow(r) ==
    /\ r.op = "preview"
    /\ r.result # None
    /\ Len(r.patches) = 2
    /\ r.patches[1].operation = "hide"
    /\ r.patches[2].operation = "show"
    /\ r.patches[1].target_field_id = r.patches[2].target_field_id

\* the visibility of the target of the first patch of r in metadata m
TargetVisible(r, m) ==
    _find_field_by_id(m, r.patches[1].target_field_id)[1].visible

\* C8 as stated: after the preview of [hide f, show f] the visibility of f in
\* the preview copy equals its visibility before the patches.
C8_RoundTrip ==
    HideThenShow(resp) =>
        TargetVisible(resp, resp.result[1].preview_metadata)
            = TargetVisible(resp, resp.result[1].metadata)

\* C8 amended: after the preview of [hide f, show f] the field f is visible
\* in the preview copy, which equals its visibility before the patches
\* exactly when it was visible before, and the stored metadata is the
\* metadata from before the patches.
C8_HideShowVisible ==
    HideThenShow(resp) =>
        LET before == TargetVisible(resp, resp.result[1].metadata)
            after == TargetVisible(resp, resp.result[1].preview_metadata)
        IN /\ after = TRUE
           /\ (after = before) <=> (before = TRUE)
           /\ get_metadata(reports, resp.id) = Some(resp.result[1].metadata)

\* C8 witness: [hide F1, show F1] was previewed on a report whose F1 is hidden
C8_Witness ==
    /\ HideThenShow(resp)
    /\ resp.patches[1].target_field_id = "F1"
    /\ ~TargetVisible(resp, resp.result[1].metadata)

\* the change-log rows of one report
Rows(log, id) == SelectSeq(log, LAMBDA e : e.report_id = id)

\* C9: a delete that returns true leaves no row, no change-log row and no
\* file of the report; a delete of a report that has no row returns false
\* and changes nothing; the row of a deleted report never comes back, and a
\* status lookup of a report without a row answers 404.
C9_DeleteReport ==
    [][/\ (resp'.op = "delete" /\ resp'.code = 200) =>
             /\ resp'.id \notin DOMAIN reports'
             /\ Rows(change_log', resp'.id) = << >>
             /\ resp'.id \notin files'
       /\ (resp'.op = "delete" /\ resp'.id \notin DOMAIN reports) =>
             /\ resp'.code = 404
             /\ UNCHANGED << reports, change_log, files, backups >>
       /\ \A id \in ReportIds :
             (history[id] # {} /\ id \notin DOMAIN reports)
                 => id \notin DOMAIN reports'
       /\ (resp'.op = "status" /\ resp'.id \notin DOMAIN reports')
             => resp'.code = 404
      ]_vars

\* C9 witness: a report with change-log rows and a backup was deleted and
\* its status was then looked up
C9_Witness ==
    /\ resp.op = "status"
    /\ resp.code = 404
    /\ resp.id \notin DOMAIN reports
    /\ resp.id \notin files
    /\ history[resp.id] # {}
    /\ nextEntry > 1
    /\ change_log = << >>

\* C10: in every step that does not delete the row of a report, the
\* change-log rows of that report stay as they are, in their order, and new
\* rows are only added after them.
C10_AppendOnly ==
    [][\A id \in ReportIds :
          (id \in DOMAIN reports /\ id \notin DOMAIN reports')
          \/ /\ Len(Rows(change_log, id)) <= Len(Rows(change_log', id))
             /\ SubSeq(Rows(change_log', id), 1, Len(Rows(change_log, id)))
                    = Rows(change_log, id)]_vars

\* C10 witness: two requests applied a patch of the same patch id and both
\* rows are stored
C10_Witness ==
    /\ Len(change_log) = 2
    /\ change_log[1].patch_id = change_log[2].patch_id
    /\ change_log[1].report_id = change_log[2].report_id
    /\ change_log[1].id < change_log[2].id

\* ====================================================== change-log export
MaxRows == 3         \* rows of a hand-sized change log
MaxStamp == 2        \* distinct clock readings of a hand-sized change log

\* default of the limit parameter of StorageService.get_change_log
DEFAULT_LIMIT == 1000

Reverse(seq) == [i \in 1..Len(seq) |-> seq[Len(seq) + 1 - i]]

\* ORDER BY timestamp DESC; the order of rows of equal timestamp is the
\* insertion order or its reverse (ties)
ByTimestampDesc(rows, ties) ==
    SortSeq(IF ties THEN Reverse(rows) ELSE rows,
            LAMBDA a, b : a.timestamp > b.timestamp)

\* StorageService.get_change_log: WHERE report_id = ? ORDER BY timestamp DESC
\* LIMIT ? OFFSET ?
get_change_log(log, report_id, limit, offset, ties) ==
    LET rows == ByTimestampDesc(
                    SelectSeq(log, LAMBDA e : e.report_id = report_id), ties)
        last == IF offset + limit < Len(rows) THEN offset + limit ELSE Len(rows)
    IN SubSeq(rows, offset + 1, last)

CsvHeader ==
    [id |-> "ID", report_id |-> "Report ID", patch_id |-> "Patch ID",
     operation |-> "Operation", field_name |-> "Field Name",
     field_id |-> "Field ID", before_value |-> "Before Value",
     after_value |-> "After Value", timestamp |-> "Timestamp",
     user_id |-> "User ID", description |-> "Description",
     success |-> "Success", error_message |-> "Error Message"]

\* one data line: empty text for missing values, the text of the boolean
CsvRow(entry) ==
    [id |-> entry.id, report_id |-> entry.report_id,
     patch_id |-> entry.patch_id, operation |-> entry.operation,
     field_name |-> entry.field_name, field_id |-> entry.field_id,
     before_value |-> entry.before_value, after_value |-> entry.after_value,
     timestamp |-> entry.timestamp, user_id |-> "", description |-> "",
     success |-> IF entry.success THEN "True" ELSE "False",
     error_message |-> IF entry.error_message = None THEN ""
                       ELSE entry.error_message[1]]

\* StorageService.get_change_log_csv: the header line and one line per entry
\* of get_change_log called with its default limit
get_change_log_csv(log, report_id, ties) ==
    LET entries == get_change_log(log, report_id, DEFAULT_LIMIT, 0, ties)
    IN << CsvHeader >> \o [i \in 1..Len(entries) |-> CsvRow(entries[i])]

CsvResponse(op, id, code, lines) ==
    [op |-> op, id |-> id, code |-> code, lines |-> lines]

\* GET /reports/{report_id}/changelog.csv
download_changelog ==
    \E id \in ReportIds, ties \in BOOLEAN :
        /\ resp' = IF get_report_status(reports, id) = None
                   THEN CsvResponse("changelog_csv", id, 404, << >>)
                   ELSE CsvResponse("changelog_csv", id, 200,
                                    get_change_log_csv(change_log, id, ties))
        /\ UNCHANGED editFrame

\* entries earlier apply requests stored for report_id: hide and show of F1,
\* numbered in insertion order, stamped by stamps
StoredEntry(i, report_id, operation, timestamp) ==
    ChangeLogEntry(i, report_id, 1, operation, "Amount", "F1",
                   Some([visible |-> (operation = "hide")]),
                   Some([visible |-> (operation = "show")]),
                   timestamp, TRUE, None)

\* hand-sized logs with any stamps, and logs of sequential single-patch
\* requests around the default limit
StoredLogs ==
    UNION { { [i \in 1..n |-> StoredEntry(i, r[i], o[i], t[i])] :
                r \in [1..n -> ReportIds], o \in [1..n -> {"hide", "show"}],
                t \in [1..n -> 1..MaxStamp] } : n \in 0..MaxRows }
    \cup { [i \in 1..n |-> StoredEntry(i, 1, "hide", i)] :
             n \in {DEFAULT_LIMIT, DEFAULT_LIMIT + 1} }

\* a processed report with a stored change log
InitCsv ==
    /\ \E m \in ParsedMetadatas(1) :
          reports = store_metadata(
                        update_report_status(
                            create_report_record(<< >>, 1), 1, READY, None),
                        1, m)
    /\ change_log \in StoredLogs
    /\ files = {1}
    /\ backups = [id \in ReportIds |-> 0]
    /\ nextReport = 2
    /\ bg = [id \in ReportIds |->
                IF id = 1 THEN [IdleTask EXCEPT !.pc = "done"] ELSE IdleTask]
    /\ history = [id \in ReportIds |->
                     IF id = 1 THEN {UPLOADING, READY} ELSE {}]
    /\ edit = IdleEdit
    /\ nextEntry = MaxEntries + 1
    /\ resp = NoResp

NextCsv ==
    \/ download_changelog
    \/ delete_report

SpecCsv == InitCsv /\ [][NextCsv]_vars

C12_UploadFailureClean ==
    [][(resp'.op = "upload" /\ resp'.code # 200) =>
          /\ files' = files
          /\ reports' = reports
          /\ bg' = bg
          /\ nextReport \notin files'
          /\ nextReport \notin DOMAIN reports'
      ]_vars

\* C12 witness: an upload failed while the file was saved or the record was
\* created; its file is not on disk and it has no row
C12_Witness ==
    /\ resp.op = "upload"
    /\ resp.code = 500
    /\ files = {}
    /\ reports = << >>
    /\ nextReport = 2

\* C13: the report info, metadata, upload status, query and delete
\* endpoints answer 404 to a request for a report id that has no row in the
\* reports table when the request is made.
C13_MissingReport404 ==
    [][( /\ resp'.op \in {"info", "metadata", "status", "query", "delete"}
         /\ resp'.id \notin DOMAIN reports )
       => resp'.code = 404]_vars

\* C13 witness: a query for a report that was uploaded and deleted again
C13_Witness ==
    /\ resp.op = "query"
    /\ resp.code = 404
    /\ resp.id \notin DOMAIN reports
    /\ history[resp.id] # {}

\* ==================================================== quick edit actions
\* field ids a client names: a section field, a parameter, an unknown id
FieldRefs == {"F1", "P1", "ZZ"}

\* POST /edit/{report_id}/hide-field: one hide patch, applied with a backup
hide_field(id, field_id) ==
    LET patches == << EditPatch(1, "hide", field_id, None, None, None) >> IN
    \/ ApplyNotFoundVia("hide-field", id)
    \/ ApplyInvalidVia("hide-field", id, patches)
    \/ ApplyStartVia("hide-field", id, patches, TRUE)

\* POST /edit/{report_id}/rename-field
rename_field(id, field_id, new_name) ==
    LET patches == << EditPatch(1, "rename", field_id, Some(new_name),
                                None, None) >> IN
    \/ ApplyNotFoundVia("rename-field", id)
    \/ ApplyInvalidVia("rename-field", id, patches)
    \/ ApplyStartVia("rename-field", id, patches, TRUE)

\* POST /edit/{report_id}/move-field: the field is looked up in the sections
\* only, its width and height are kept, then one move patch is applied
move_field(id, field_id, x, y) ==
    LET metadata == get_metadata(reports, id)
        current_field == IF metadata = None THEN None
                         ELSE FindIn(Concat(metadata[1].sections), field_id)
    IN IF current_field = None
       THEN /\ edit.pc = "idle"
            /\ resp' = EditResponse("move-field", id, 404, 404, << >>, << >>,
                                    {}, None)
            /\ UNCHANGED editFrame
       ELSE LET patches ==
                  << EditPatch(1, "move", field_id, None,
                         Some(Position(x, y, current_field[1].position.width,
                                       current_field[1].position.height)),
                         None) >>
            IN \/ ApplyInvalidVia("move-field", id, patches)
               \/ ApplyStartVia("move-field", id, patches, TRUE)

\* POST /edit/{report_id}/preview of the lists over F1 and ZZ
preview_mixed ==
    \E id \in ReportIds, patches \in MixedPatchLists :
        /\ resp' = PreviewResponse(reports, id, patches)
        /\ UNCHANGED editFrame

\* clients preview, apply lists that fail validation and use the quick
\* actions on a processed report, which may be deleted
NextQuick ==
    \/ preview_mixed
    \/ \E id \in ReportIds : ApplyNotFound(id)
    \/ \E id \in ReportIds, patches \in MixedPatchLists :
          ApplyInvalid(id, patches)
    \/ \E id \in ReportIds, field_id \in FieldRefs : hide_field(id, field_id)
    \/ \E id \in ReportIds, field_id \in FieldRefs, new_name \in {"", "Area"} :
          rename_field(id, field_id, new_name)
    \/ \E id \in ReportIds, field_id \in FieldRefs :
          move_field(id, field_id, 1, 1)
    \/ ApplyLastPatch
    \/ delete_report

SpecQuick == InitEdit /\ [][NextQuick]_vars

EditOps == {"preview", "apply", "hide-field", "rename-field", "move-field"}

\* C14: an edit endpoint (preview, apply, hide-field, rename-field,
\* move-field) answers 404 to a request whose report id has no row, and to a
\* request with a patch whose target is no field, parameter or formula of
\* the report.
C14_MissingReference404 ==
    [][( /\ resp'.op \in EditOps
         /\ edit.pc = "idle"
         /\ \/ resp'.id \notin DOMAIN reports
            \/ /\ get_metadata(reports, resp'.id) # None
               /\ \E i \in 1..Len(resp'.patches) :
                     TargetMissing(get_metadata(reports, resp'.id)[1],
                                   resp'.patches[i]) )
       => resp'.code = 404]_vars

\* ===================================================== query suggestions
MaxFields == 3        \* fields of the section of a report
MaxParameters == 2    \* parameters of a report
MaxTables == 2        \* tables of a report

\* suggestions[:15]
SUGGESTION_LIMIT == 15

\* a text with a name in it is the pair of its template and the name
Text(template) == << template >>
TextOf(template, name) == << template, name >>

\* names in first-seen order: `if name not in names: names.append(name)`
RECURSIVE AppendNew(_, _)
AppendNew(names, fields) ==
    IF fields = << >> THEN names
    ELSE AppendNew(IF \E i \in 1..Len(names) : names[i] = Head(fields).name
                   THEN names ELSE Append(names, Head(fields).name),
                   Tail(fields))

\* all the fields of all the sections, in order
SectionFields(metadata) ==
    Concat([s \in 1..Len(metadata.sections) |-> metadata.sections[s].fields])

FieldsOfType(metadata, field_type) ==
    SelectSeq(SectionFields(metadata), LAMBDA f : f.field_type = field_type)

FirstN(seq, n) == SubSeq(seq, 1, IF Len(seq) < n THEN Len(seq) ELSE n)

\* the suggestions in the order the function appends them
Candidates(metadata) ==
    LET field_names == AppendNew(<< >>, SectionFields(metadata))
        formula_fields == AppendNew(<< >>, FieldsOfType(metadata, "formula"))
        currency_fields == AppendNew(<< >>, FieldsOfType(metadata, "currency"))
        sample_fields == FirstN(field_names, 3)
        param_names == FirstN(metadata.parameters, 2)
        section_types == { metadata.sections[s].section_type :
                              s \in 1..Len(metadata.sections) }
    IN << Text("What sections does this report have?"),
          Text("How many fields are in this report?"),
          Text("What database tables are used?") >>
       \o Concat([i \in 1..Len(sample_fields) |->
                    << TextOf("Where does {} come from?", sample_fields[i]),
                       TextOf("Show me details about the {} field",
                              sample_fields[i]) >>])
       \o (IF formula_fields = << >> THEN << >>
           ELSE << Text("Which fields use formulas?") >>
                \o (IF formula_fields[1] = "" THEN << >>
                    ELSE << TextOf("What is the formula for {}?",
                                   formula_fields[1]) >>))
       \o (IF currency_fields = << >> THEN << >>
           ELSE << Text("Show me all currency fields") >>
                \o (IF currency_fields[1] = "" THEN << >>
                    ELSE << TextOf("How is {} calculated?",
                                   currency_fields[1]) >>))
       \o (IF metadata.database_connections = << >> THEN << >>
           ELSE << Text("What database connections are configured?") >>)
       \o (IF metadata.tables = << >> THEN << >>
           ELSE << Text("What tables are used in this report?") >>
                \o (IF Len(metadata.tables) > 1
                    THEN << Text("How are the tables related?") >>
                    ELSE << >>))
       \o (IF metadata.parameters = << >> THEN << >>
           ELSE << Text("What parameters does this report have?") >>
                \o [i \in 1..Len(param_names) |->
                      TextOf("How is the {} parameter used?",
                             param_names[i].name)])
       \o (IF "details" \in section_types
           THEN << Text("What fields are in the Details section?") >>
           ELSE << >>)
       \o (IF "report_header" \in section_types
           THEN << Text("What's displayed in the report header?") >>
           ELSE << >>)
       \o (IF "report_footer" \in section_types
           THEN << Text("What totals are shown in the footer?") >>
           ELSE << >>)

\* a de-duplication that keeps every element
DictFromKeysKeepAll(seq) == seq

\* list(dict.fromkeys(seq)): the first occurrence of every element, in order
DictFromKeys(seq) ==
    LET firsts == { i \in 1..Len(seq) : \A j \in 1..(i - 1) : seq[j] # seq[i] }
        nth(k) == CHOOSE i \in firsts :
                     Cardinality({ j \in firsts : j < i }) = k - 1
    IN [k \in 1..Cardinality(firsts) |-> seq[nth(k)]]

_generate_query_suggestions(metadata) ==
    FirstN(DictFromKeys(Candidates(metadata)), SUGGESTION_LIMIT)

\* the attributes of a stored metadata that the suggestions read
SuggestField(name, field_type) == [name |-> name, field_type |-> field_type]

SuggestSection(section_type, fields) ==
    [section_type |-> section_type, fields |-> fields]

SuggestMetadata(sections, parameters, tables, database_connections) ==
    [sections |-> sections, parameters |-> parameters, tables |-> tables,
     database_connections |-> database_connections]

SeqsUpTo(S, n) == UNION { [1..k -> S] : k \in 0..n }

SuggestFields ==
    { SuggestField(name, field_type) :
        name \in {"Amount", "Total", "Name"},
        field_type \in {"string", "currency", "formula"} }

\* reports of no section, or of a details section with the fields and at
\* most one empty header or footer section after it
SuggestSections ==
    { << >> } \cup
    { << SuggestSection("details", fields) >> \o rest :
        fields \in SeqsUpTo(SuggestFields, MaxFields),
        rest \in { << >>, << SuggestSection("report_header", << >>) >>,
                   << SuggestSection("report_footer", << >>) >> } }

SuggestMetadatas ==
    { SuggestMetadata(sections, parameters, tables, database_connections) :
        sections \in SuggestSections,
        parameters \in SeqsUpTo({ [name |-> "Year"] }, MaxParameters),
        tables \in { [i \in 1..k |-> i] : k \in 0..MaxTables },
        database_connections \in { << >>, << "main" >> } }

SuggestResponse(op, id, code, metadata, suggestions) ==
    [op |-> op, id |-> id, code |-> code, metadata |-> metadata,
     suggestions |-> suggestions]

\* a suggestions request in flight for the report id whose stored metadata
\* holds metadata in the attributes the suggestions read
SuggestRequest(id, metadata) ==
    [pc |-> "suggest", id |-> id, metadata |-> metadata]

\* GET /query/{report_id}/suggestions
get_query_suggestions ==
    /\ edit.pc = "suggest"
    /\ resp' = IF get_metadata(reports, edit.id) = None
               THEN SuggestResponse("suggestions", edit.id, 404, None, << >>)
               ELSE SuggestResponse("suggestions", edit.id, 200,
                                    Some(edit.metadata),
                                    _generate_query_suggestions(edit.metadata))
    /\ edit' = IdleEdit
    /\ UNCHANGED << reports, change_log, files, backups, nextReport, bg,
                    history, nextEntry >>

\* a parsed report and one suggestions request for it
InitSuggest ==
    /\ reports = store_metadata(
                     update_report_status(
                         create_report_record(<< >>, 1), 1, READY, None),
                     1, CHOOSE m \in ParsedMetadatas(1) : TRUE)
    /\ change_log = << >>
    /\ files = {1}
    /\ backups = [id \in ReportIds |-> 0]
    /\ nextReport = 2
    /\ bg = [id \in ReportIds |->
                IF id = 1 THEN [IdleTask EXCEPT !.pc = "done"] ELSE IdleTask]
    /\ history = [id \in ReportIds |->
                     IF id = 1 THEN {UPLOADING, READY} ELSE {}]
    /\ \E metadata \in SuggestMetadatas : edit = SuggestRequest(1, metadata)
    /\ nextEntry = 1
    /\ resp = NoResp

NextSuggest ==
    \/ get_query_suggestions
    \/ delete_report

SpecSuggest == InitSuggest /\ [][NextSuggest]_vars

\* ------------------------------------------------------------------ C15
SuggestionsGiven == resp.op = "suggestions" /\ resp.code = 200

HasFieldOfType(metadata, field_type) == FieldsOfType(metadata, field_type) # << >>

Suggested(text) == \E i \in 1..Len(resp.suggestions) : resp.suggestions[i] = text

SuggestedTemplate(template) ==
    \E i \in 1..Len(resp.suggestions) : resp.suggestions[i][1] = template

\* C15: for a metadata with a field, a currency field, a formula field, a
\* parameter and two tables, the suggestions hold the three generic
\* questions, a currency question, a formula question and the question
\* about how the tables are related.
C15_RichMetadataSuggestions ==
    (/\ SuggestionsGiven
     /\ SectionFields(resp.metadata[1]) # << >>
     /\ HasFieldOfType(resp.metadata[1], "currency")
     /\ HasFieldOfType(resp.metadata[1], "formula")
     /\ resp.metadata[1].parameters # << >>
     /\ Len(resp.metadata[1].tables) >= 2)
    => /\ Suggested(Text("What sections does this report have?"))
       /\ Suggested(Text("How many fields are in this report?"))
       /\ Suggested(Text("What database tables are used?"))
       /\ \/ SuggestedTemplate("Show me all currency fields")
          \/ SuggestedTemplate("How is {} calculated?")
       /\ \/ SuggestedTemplate("Which fields use formulas?")
          \/ SuggestedTemplate("What is the formula for {}?")
       /\ Suggested(Text("How are the tables related?"))

\* ------------------------------------------------------------------ C16
\* seq without the elements that occurred earlier in it
RECURSIVE FirstSeen(_, _)
FirstSeen(seen, seq) ==
    IF seq = << >> THEN seen
    ELSE FirstSeen(IF \E i \in 1..Len(seen) : seen[i] = Head(seq)
                   THEN seen ELSE Append(seen, Head(seq)),
                   Tail(seq))

\* C16: the suggestions are at most 15, none occurs twice, and they are a
\* prefix of the candidates in first-seen order.
C16_SuggestionsBounded ==
    SuggestionsGiven =>
        LET candidates == FirstSeen(<< >>, Candidates(resp.metadata[1])) IN
        /\ Len(resp.suggestions) <= 15
        /\ \A i, j \in 1..Len(resp.suggestions) :
              resp.suggestions[i] = resp.suggestions[j] => i = j
        /\ Len(resp.suggestions) <= Len(candidates)
        /\ resp.suggestions = SubSeq(candidates, 1, Len(resp.suggestions))

\* suggestions were cut at 15 and a candidate that occurred twice was dropped
C16_Witness ==
    /\ SuggestionsGiven
    /\ Len(resp.suggestions) = 15
    /\ LET candidates == Candidates(resp.metadata[1]) IN
       /\ Len(FirstSeen(<< >>, candidates)) > 15
       /\ \E i, j \in 1..15 : i < j /\ candidates[i] = candidates[j]

\* ============================================== EditPatch.new_position
MaxCoord == 1         \* coordinates of a position map lie in -1..MaxCoord

\* a value of a position map: an integer, or a text that is no integer
IntValue(n) == [int |-> TRUE, n |-> n]
TextValue == [int |-> FALSE, n |-> 0]

required_keys == {"x", "y", "width", "height"}

\* the maps a client can send: any of the keys, any of the values
PositionMaps ==
    UNION { [keys -> { IntValue(n) : n \in -1..MaxCoord } \cup { TextValue }] :
              keys \in SUBSET required_keys }

\* a validator that only looks for the keys
validate_position_keys_only(v) ==
    v = None \/ \A key \in required_keys : key \in DOMAIN v[1]

\* TRUE when the validator returns v, FALSE when it raises ValueError
validate_position(v) ==
    \/ v = None
    \/ /\ \A key \in required_keys : key \in DOMAIN v[1]
       /\ \A key \in required_keys : v[1][key].int /\ v[1][key].n >= 0

\* new_position: Optional[Dict[str, int]]
TypedPosition(v) ==
    IF v = None THEN None
    ELSE Some(Position(v[1]["x"].n, v[1]["y"].n, v[1]["width"].n,
                       v[1]["height"].n))

\* a client about to construct a move patch for the field F1 of report id
ConstructRequest(id, new_position) ==
    [pc |-> "construct", id |-> id, new_position |-> new_position]

ConstructResponse(id, code) ==
    [op |-> "construct", id |-> id, code |-> code]

\* EditPatch(operation="move", target_field_id="F1", new_position=..)
EditPatchConstruct ==
    /\ edit.pc = "construct"
    /\ IF validate_position(edit.new_position)
       THEN /\ edit' = [pc |-> "constructed", id |-> edit.id,
                        patches |-> << EditPatch(1, "move", "F1", None,
                                           TypedPosition(edit.new_position),
                                           None) >>]
            /\ resp' = ConstructResponse(edit.id, 200)
       ELSE /\ edit' = IdleEdit
            /\ resp' = ConstructResponse(edit.id, 422)
    /\ UNCHANGED << reports, change_log, files, backups, nextReport, bg,
                    history, nextEntry >>

\* POST /edit/{report_id}/preview with the constructed patch
preview_constructed ==
    /\ edit.pc = "constructed"
    /\ resp' = PreviewResponse(reports, edit.id, edit.patches)
    /\ edit' = IdleEdit
    /\ UNCHANGED << reports, change_log, files, backups, nextReport, bg,
                    history, nextEntry >>

\* a parsed report and a client with a position map, or with none
InitPosition ==
    /\ reports = store_metadata(
                     update_report_status(
                         create_report_record(<< >>, 1), 1, READY, None),
                     1, CHOOSE m \in ParsedMetadatas(1) : TRUE)
    /\ change_log = << >>
    /\ files = {1}
    /\ backups = [id \in ReportIds |-> 0]
    /\ nextReport = 2
    /\ bg = [id \in ReportIds |->
                IF id = 1 THEN [IdleTask EXCEPT !.pc = "done"] ELSE IdleTask]
    /\ history = [id \in ReportIds |->
                     IF id = 1 THEN {UPLOADING, READY} ELSE {}]
    /\ \E v \in { None } \cup { Some(m) : m \in PositionMaps } :
          edit = ConstructRequest(1, v)
    /\ nextEntry = 1
    /\ resp = NoResp

NextPosition ==
    \/ EditPatchConstruct
    \/ preview_constructed

SpecPosition == InitPosition /\ [][NextPosition]_vars

\* ------------------------------------------------------------------ C17
\* the map has the four keys and each is a non-negative integer
WellFormedPosition(m) ==
    /\ {"x", "y", "width", "height"} \subseteq DOMAIN m
    /\ \A key \in {"x", "y", "width", "height"} : m[key].int /\ ~(m[key].n < 0)

\* C17: constructing an edit patch with a new_position succeeds if and only
\* if the map has the keys x, y, width and height and each is a non-negative
\* integer; a patch that was rejected reaches no preview or apply step.
C17_PositionValidatedAtConstruction ==
    [][ /\ (edit.pc = "construct" /\ edit.new_position # None)
            => /\ resp'.op = "construct"
               /\ (resp'.code = 200 <=> WellFormedPosition(edit.new_position[1]))
               /\ (edit'.pc = "constructed" <=> resp'.code = 200)
        /\ resp'.op = "preview"
            => /\ edit.pc = "constructed"
               /\ \A i \in 1..Len(edit.patches) :
                     edit.patches[i].new_position # None =>
                        LET p == edit.patches[i].new_position[1] IN
                        p.x >= 0 /\ p.y >= 0 /\ p.width >= 0 /\ p.height >= 0
      ]_vars

\* a preview of a move patch whose map was accepted at construction
C17_Witness ==
    /\ resp.op = "preview"
    /\ resp.code = 200
    /\ Len(resp.patches) = 1
    /\ resp.patches[1].operation = "move"
    /\ resp.patches[1].new_position = Some(Position(1, 0, 1, 0))

\* ============================================================ LLMService
MaxTokens == 2        \* total_tokens of a usage block lie in 0..MaxTokens

PRIMARY_MODEL == "primary"
FALLBACK_MODEL == "fallback"

\* the usage of a response body: the key is missing, is null, or holds tokens
UsageMissing == [kind |-> "missing", total_tokens |-> 0]
UsageNull == [kind |-> "null", total_tokens |-> 0]
Usage(total_tokens) == [kind |-> "tokens", total_tokens |-> total_tokens]

\* what the provider answers to one POST /chat/completions: a status other
\* than 200, or a body whose message has a function call, has plain content,
\* or cannot be parsed
ModelError(status_code) ==
    [status_code |-> status_code, form |-> "none", usage |-> UsageMissing]

ModelBody(form, usage) == [status_code |-> 200, form |-> form, usage |-> usage]

ModelOutcomes ==
    { ModelError(status_code) : status_code \in {429, 500} } \cup
    { ModelBody(form, usage) :
        form \in {"function_call", "content", "unparsable"},
        usage \in { UsageMissing, UsageNull } \cup
                  { Usage(n) : n \in 0..MaxTokens } }

\* _query_model: the error it raises, None when it returns the body
QueryModelError(outcome) ==
    IF outcome.status_code # 200
    THEN Some(<< "LLM API error", outcome.status_code >>)
    ELSE None

\* response.get("usage", {}).get("prompt_tokens", 0): the error it raises
UsageError(outcome) ==
    IF outcome.usage.kind = "null"
    THEN Some(<< "'NoneType' object has no attribute 'get'" >>)
    ELSE None

\* the first error of the call and of the logging that follows it
AttemptError(outcome) ==
    IF QueryModelError(outcome) # None THEN QueryModelError(outcome)
    ELSE UsageError(outcome)

\* _parse_response never raises: it degrades to confidence 0
_parse_response(query, response, model) ==
    [query |-> query, model_used |-> model,
     confidence |-> CASE response.form = "function_call" -> "from_model"
                      [] response.form = "content" -> "0.7"
                      [] OTHER -> "0.0",
     tokens_used |-> IF response.form = "unparsable" THEN 0
                     ELSE response.usage.total_tokens]

\* log_llm_request
LlmLog(model, success, fallback_reason, error) ==
    [model |-> model, success |-> success,
     fallback_reason |-> fallback_reason, error |-> error]

ModelCall(model, query, outcome) ==
    [model |-> model, query |-> query, outcome |-> outcome]

LLMResponse(code, answer) ==
    [op |-> "llm_query", id |-> 0, code |-> code, answer |-> answer]

\* the locals of LLMService.query_report at an await of a model call
LLMQuery(pc, query, calls, log, primary_error) ==
    [pc |-> pc, query |-> query, calls |-> calls, log |-> log,
     primary_error |-> primary_error]

\* the try of the primary model: call, log, parse, return
QueryPrimary ==
    /\ edit.pc = "primary"
    /\ \E outcome \in ModelOutcomes :
          LET calls == Append(edit.calls,
                              ModelCall(PRIMARY_MODEL, edit.query, outcome))
              primary_error == AttemptError(outcome)
          IN IF primary_error # None
             THEN /\ edit' = LLMQuery("fallback", edit.query, calls, edit.log,
                                      primary_error)
                  /\ resp' = NoResp
             ELSE /\ edit' = LLMQuery("done", edit.query, calls,
                                 Append(edit.log,
                                        LlmLog(PRIMARY_MODEL, TRUE, None, None)),
                                 None)
                  /\ resp' = LLMResponse(200,
                                 Some(_parse_response(edit.query, outcome,
                                                      PRIMARY_MODEL)))
    /\ UNCHANGED << reports, change_log, files, backups, nextReport, bg,
                    history, nextEntry >>

\* the except of the primary model: call the fallback model, log, parse,
\* return; an error here reaches the outer except, which logs and re-raises
QueryFallback ==
    /\ edit.pc = "fallback"
    /\ \E outcome \in ModelOutcomes :
          LET calls == Append(edit.calls,
                              ModelCall(FALLBACK_MODEL, edit.query, outcome))
              e == AttemptError(outcome)
          IN IF e # None
             THEN /\ edit' = LLMQuery("done", edit.query, calls,
                                 Append(edit.log,
                                        LlmLog("unknown", FALSE, None, e)),
                                 edit.primary_error)
                  /\ resp' = LLMResponse(500, None)
             ELSE /\ edit' = LLMQuery("done", edit.query, calls,
                                 Append(edit.log,
                                        LlmLog(FALLBACK_MODEL, TRUE,
                                               edit.primary_error, None)),
                                 edit.primary_error)
                  /\ resp' = LLMResponse(200,
                                 Some(_parse_response(edit.query, outcome,
                                                      FALLBACK_MODEL)))
    /\ UNCHANGED << reports, change_log, files, backups, nextReport, bg,
                    history, nextEntry >>

\* a parsed report and one query about it, about to call the primary model
InitLLM ==
    /\ reports = store_metadata(
                     update_report_status(
                         create_report_record(<< >>, 1), 1, READY, None),
                     1, CHOOSE m \in ParsedMetadatas(1) : TRUE)
    /\ change_log = << >>
    /\ files = {1}
    /\ backups = [id \in ReportIds |-> 0]
    /\ nextReport = 2
    /\ bg = [id \in ReportIds |->
                IF id = 1 THEN [IdleTask EXCEPT !.pc = "done"] ELSE IdleTask]
    /\ history = [id \in ReportIds |->
                     IF id = 1 THEN {UPLOADING, READY} ELSE {}]
    /\ \E query \in {"Where does Amount come from?", "Which fields are hidden?"} :
          edit = LLMQuery("primary", query, << >>, << >>, None)
    /\ nextEntry = 1
    /\ resp = NoResp

NextLLM ==
    \/ QueryPrimary
    \/ QueryFallback

SpecLLM == InitLLM /\ [][NextLLM]_vars

\* ------------------------------------------------------------------ C18
LLMQueryDone == edit.pc = "done" /\ resp.op = "llm_query"

CallsOf(model) == { i \in 1..Len(edit.calls) : edit.calls[i].model = model }

PrimaryCallFailed ==
    \E i \in CallsOf(PRIMARY_MODEL) : edit.calls[i].outcome.status_code # 200

\* C18: when the primary model call fails the fallback model is called
\* exactly once with the same request, the answer is attributed to the
\* fallback model and the log holds the primary failure reason; the fallback
\* model is never called when the primary call succeeded; no query makes more
\* than two model calls.
C18_SingleFallback ==
    LLMQueryDone =>
        /\ Len(edit.calls) <= 2
        /\ PrimaryCallFailed =>
              /\ Cardinality(CallsOf(FALLBACK_MODEL)) = 1
              /\ \A i \in CallsOf(FALLBACK_MODEL) :
                    edit.calls[i].query = edit.calls[1].query
              /\ resp.code = 200 =>
                    /\ resp.answer[1].model_used = FALLBACK_MODEL
                    /\ \E k \in 1..Len(edit.log) :
                          /\ edit.log[k].model = FALLBACK_MODEL
                          /\ edit.log[k].fallback_reason # None
        /\ ~PrimaryCallFailed => CallsOf(FALLBACK_MODEL) = {}

\* =================================================== ReportParserService
MaxReturnCode == 2    \* exit codes of the converter lie in 0..MaxReturnCode

\* one step of parse_report and what it met
ParseEvent(step, outcome) == [step |-> step, outcome |-> outcome]

\* the locals of parse_report: where it stands, the steps it took, whether
\* the temporary XML file is on disk, the XML it holds and how it ended
ParseTask(pc, trace, temp_xml, xml_content, result) ==
    [pc |-> pc, trace |-> trace, temp_xml |-> temp_xml,
     xml_content |-> xml_content, result |-> result]

ParseResponse(id, code, source) ==
    [op |-> "parse_report", id |-> id, code |-> code, source |-> source]

parseFrame == << reports, change_log, files, backups, nextReport, bg, history,
                 nextEntry >>

\* a finally that leaves the temporary file on disk
TempAfterFinallyKept(temp_xml) == temp_xml

\* finally: if temp_xml_path.exists(): temp_xml_path.unlink()
TempAfterFinally(temp_xml) == FALSE

\* if await self.crystal_bridge.health_check()
ParseHealthCheck ==
    /\ edit.pc = "health_check"
    /\ \E healthy \in BOOLEAN :
          edit' = ParseTask(IF healthy THEN "extract_metadata" ELSE "convert",
                            Append(edit.trace,
                                   ParseEvent("health_check", healthy)),
                            edit.temp_xml, edit.xml_content, edit.result)
    /\ resp' = NoResp
    /\ UNCHANGED parseFrame

\* metadata = await self.crystal_bridge.extract_metadata(file_path); a
\* missing report file is one of the errors it raises
ParseExtractMetadata ==
    /\ edit.pc = "extract_metadata"
    /\ \E extracted \in IF 1 \in files THEN BOOLEAN ELSE {FALSE} :
          IF extracted
          THEN /\ edit' = ParseTask("done",
                              Append(edit.trace,
                                     ParseEvent("extract_metadata", TRUE)),
                              edit.temp_xml, edit.xml_content, "bridge")
               /\ resp' = ParseResponse(1, 200, "bridge")
          ELSE /\ edit' = ParseTask("convert",
                              Append(edit.trace,
                                     ParseEvent("extract_metadata", FALSE)),
                              edit.temp_xml, edit.xml_content, edit.result)
               /\ resp' = NoResp
    /\ UNCHANGED parseFrame

\* _convert_rpt_to_xml up to the start of the converter: the mock XML when
\* the binary is not on disk, else a temporary file for the converter
ParseConvert ==
    /\ edit.pc = "convert"
    /\ \E binary_exists \in BOOLEAN :
          edit' = IF binary_exists
                  THEN ParseTask("converter",
                           Append(edit.trace, ParseEvent("convert", TRUE)),
                           TRUE, edit.xml_content, edit.result)
                  ELSE ParseTask("parse_xml",
                           Append(edit.trace, ParseEvent("convert", FALSE)),
                           edit.temp_xml, "mock", edit.result)
    /\ resp' = NoResp
    /\ UNCHANGED parseFrame

\* the converter ends: a non-zero exit raises, a zero exit reads the XML
\* (which may fail); the finally removes the temporary file either way
ParseConverterExit ==
    /\ edit.pc = "converter"
    /\ \E returncode \in 0..MaxReturnCode, readable \in BOOLEAN :
          IF returncode # 0 \/ ~readable
          THEN /\ edit' = ParseTask("done",
                              Append(edit.trace,
                                     ParseEvent("exit", returncode)),
                              TempAfterFinally(edit.temp_xml),
                              edit.xml_content, "failed")
               /\ resp' = ParseResponse(1, 500, "converter")
          ELSE /\ edit' = ParseTask("parse_xml",
                              Append(edit.trace,
                                     ParseEvent("exit", returncode)),
                              TempAfterFinally(edit.temp_xml),
                              "converted", edit.result)
               /\ resp' = NoResp
    /\ UNCHANGED parseFrame

\* _parse_xml_to_dict and _normalize_metadata: the XML of the converter may
\* be invalid; the normalisation reads the size of the report file
ParseNormalize ==
    /\ edit.pc = "parse_xml"
    /\ \E valid \in IF edit.xml_content = "mock" THEN {TRUE} ELSE BOOLEAN :
          IF valid /\ 1 \in files
          THEN /\ edit' = ParseTask("done",
                              Append(edit.trace, ParseEvent("normalize", TRUE)),
                              edit.temp_xml, edit.xml_content,
                              edit.xml_content)
               /\ resp' = ParseResponse(1, 200, edit.xml_content)
          ELSE /\ edit' = ParseTask("done",
                              Append(edit.trace, ParseEvent("normalize", FALSE)),
                              edit.temp_xml, edit.xml_content, "failed")
               /\ resp' = ParseResponse(1, 500, edit.xml_content)
    /\ UNCHANGED parseFrame

\* a report being parsed, its file on disk
InitParse ==
    /\ reports = update_report_status(create_report_record(<< >>, 1), 1,
                                      PARSING, None)
    /\ change_log = << >>
    /\ files = {1}
    /\ backups = [id \in ReportIds |-> 0]
    /\ nextReport = 2
    /\ bg = [id \in ReportIds |->
                IF id = 1 THEN [IdleTask EXCEPT !.pc = "parsing"] ELSE IdleTask]
    /\ history = [id \in ReportIds |->
                     IF id = 1 THEN {UPLOADING, PARSING} ELSE {}]
    /\ edit = ParseTask("health_check", << >>, FALSE, "none", "none")
    /\ nextEntry = 1
    /\ resp = NoResp

NextParse ==
    \/ ParseHealthCheck
    \/ ParseExtractMetadata
    \/ ParseConvert
    \/ ParseConverterExit
    \/ ParseNormalize
    \/ delete_report

\* parse_report runs in the background task while clients may delete the report
SpecParse == InitParse /\ [][NextParse]_vars

\* ------------------------------------------------------------------ C19
\* the step before the i-th step of the parse was step with outcome
Preceded(i, step, outcome) ==
    i > 1 /\ edit.trace[i - 1] = ParseEvent(step, outcome)

\* C19: the bridge extraction is called only after a successful health
\* check; the converter path is entered only when the health check failed or
\* the extraction raised; the mock XML is produced, without raising, only
\* when the converter binary is absent; a non-zero converter exit is a parse
\* failure with the temporary XML file removed.
C19_ParsePriorityChain ==
    edit.pc \in {"health_check", "extract_metadata", "convert", "converter",
                 "parse_xml", "done"} =>
    \A i \in 1..Len(edit.trace) :
        LET e == edit.trace[i] IN
        /\ e.step = "extract_metadata" => Preceded(i, "health_check", TRUE)
        /\ e.step = "convert" =>
              \/ Preceded(i, "health_check", FALSE)
              \/ Preceded(i, "extract_metadata", FALSE)
        /\ (e.step = "convert" /\ i = Len(edit.trace)) =>
              /\ (edit.xml_content = "mock" <=> e.outcome = FALSE)
              /\ e.outcome = FALSE => edit.pc = "parse_xml"
        /\ edit.xml_content = "mock" =>
              \E k \in 1..Len(edit.trace) :
                  edit.trace[k] = ParseEvent("convert", FALSE)
        /\ (e.step = "exit" /\ e.outcome # 0) =>
              /\ edit.pc = "done"
              /\ edit.result = "failed"
              /\ ~edit.temp_xml

\* the extraction raised, the converter ran and exited with a non-zero code
C19_Witness ==
    /\ edit.pc = "done"
    /\ edit.result = "failed"
    /\ Len(edit.trace) = 4
    /\ edit.trace[2] = ParseEvent("extract_metadata", FALSE)
    /\ edit.trace[3] = ParseEvent("convert", TRUE)
    /\ edit.trace[4] = ParseEvent("exit", 1)
    /\ ~edit.temp_xml

\* ===================================================== crystal endpoints
CrystalEndpoints == {"preview", "export", "field-operation", "thumbnail"}

\* the bridge method an endpoint invokes
BridgeOperation(endpoint) ==
    CASE endpoint = "export" -> "export_report"
      [] endpoint = "field-operation" -> "modify_field"
      [] OTHER -> "generate_preview"

\* the locals of a rendering-bridge request: the endpoint, the report, the
\* state of the bridge during the request, what the two look-ups found and
\* the calls made to the bridge
CrystalRequest(pc, endpoint, id, bridge_up, found, calls) ==
    [pc |-> pc, endpoint |-> endpoint, id |-> id, bridge_up |-> bridge_up,
     found |-> found, calls |-> calls]

CrystalResponse(endpoint, id, code, success) ==
    [op |-> endpoint, id |-> id, code |-> code, success |-> success]

\* a look-up that does not ask whether the file is on disk
ReportLookupNoFile(rs, fs, id) ==
    IF get_report_status(rs, id) = None
    THEN [report |-> FALSE, file |-> FALSE]
    ELSE [report |-> TRUE, file |-> TRUE]

\* report_info = await storage.get_report_status(report_id);
\* file_path = Path(report_info['file_path']); file_path.exists()
ReportLookup(rs, fs, id) ==
    IF get_report_status(rs, id) = None
    THEN [report |-> FALSE, file |-> FALSE]
    ELSE [report |-> TRUE, file |-> rs[id].file_path \in fs]

\* the handler up to the health probe: 404 for a missing report or file
CrystalStart ==
    /\ edit.pc \in {"idle", "done"}
    /\ \E endpoint \in CrystalEndpoints, id \in ReportIds, bridge_up \in BOOLEAN :
          LET found == ReportLookup(reports, files, id) IN
          IF found.report /\ found.file
          THEN /\ edit' = CrystalRequest("health_check", endpoint, id,
                                         bridge_up, found, << >>)
               /\ resp' = NoResp
          ELSE /\ edit' = CrystalRequest("done", endpoint, id, bridge_up,
                                         found, << >>)
               /\ resp' = CrystalResponse(endpoint, id, 404, FALSE)
    /\ UNCHANGED parseFrame

\* if not await crystal_service.health_check(): 503
CrystalHealthCheck ==
    /\ edit.pc = "health_check"
    /\ LET calls == Append(edit.calls, "health_check") IN
       IF edit.bridge_up
       THEN /\ edit' = [edit EXCEPT !.pc = "operation", !.calls = calls]
            /\ resp' = NoResp
       ELSE /\ edit' = [edit EXCEPT !.pc = "done", !.calls = calls]
            /\ resp' = CrystalResponse(edit.endpoint, edit.id, 503, FALSE)
    /\ UNCHANGED parseFrame

\* the bridge operation: preview, export and thumbnail raise on a failure
\* (500), modify_field answers false (200 with success false)
CrystalOperation ==
    /\ edit.pc = "operation"
    /\ \E done \in BOOLEAN :
          /\ edit' = [edit EXCEPT !.pc = "done",
                         !.calls = Append(edit.calls,
                                          BridgeOperation(edit.endpoint))]
          /\ resp' = CrystalResponse(edit.endpoint, edit.id,
                        IF done \/ edit.endpoint = "field-operation"
                        THEN 200 ELSE 500,
                        done)
    /\ UNCHANGED parseFrame

\* a processed report whose file may have gone from the upload directory
InitCrystal ==
    /\ reports = store_metadata(
                     update_report_status(
                         create_report_record(<< >>, 1), 1, READY, None),
                     1, CHOOSE m \in ParsedMetadatas(1) : TRUE)
    /\ change_log = << >>
    /\ files \in { {}, {1} }
    /\ backups = [id \in ReportIds |-> 0]
    /\ nextReport = 2
    /\ bg = [id \in ReportIds |->
                IF id = 1 THEN [IdleTask EXCEPT !.pc = "done"] ELSE IdleTask]
    /\ history = [id \in ReportIds |->
                     IF id = 1 THEN {UPLOADING, READY} ELSE {}]
    /\ edit = IdleEdit
    /\ nextEntry = 1
    /\ resp = NoResp

NextCrystal ==
    \/ CrystalStart
    \/ CrystalHealthCheck
    \/ CrystalOperation
    \/ delete_report

SpecCrystal == InitCrystal /\ [][NextCrystal]_vars

\* ------------------------------------------------------------------ C20
\* the step invokes the bridge operation of the endpoint
OperationInvoked ==
    /\ edit.pc = "operation"
    /\ edit'.pc = "done"
    /\ Len(edit'.calls) = Len(edit.calls) + 1

\* the step starts a request for a report that has no row or no file
StartsOnMissing ==
    /\ edit.pc \in {"idle", "done"}
    /\ edit'.pc \in {"health_check", "done"}
    /\ edit' # edit
    /\ \/ edit'.id \notin DOMAIN reports
       \/ reports[edit'.id].file_path \notin files

\* C20: in each rendering-bridge endpoint the bridge operation is invoked
\* only after the report was found in Storage, its file was found on disk
\* and the health probe succeeded; a missing report or file yields 404 even
\* when the bridge is unhealthy; an unhealthy bridge yields 503 without the
\* operation being attempted.
C20_BridgeGate ==
    [][ /\ OperationInvoked =>
              /\ edit.found.report /\ edit.found.file
              /\ edit.calls = << "health_check" >>
              /\ edit.bridge_up
        /\ StartsOnMissing =>
              /\ resp' = CrystalResponse(edit'.endpoint, edit'.id, 404, FALSE)
              /\ edit'.calls = << >>
              /\ edit'.pc = "done"
        /\ (edit.pc = "health_check" /\ edit'.pc # "health_check"
              /\ edit' # edit /\ ~edit.bridge_up) =>
              /\ resp' = CrystalResponse(edit.endpoint, edit.id, 503, FALSE)
              /\ edit'.pc = "done"
              /\ edit'.calls = << "health_check" >>
      ]_vars

\* the file of a stored report is gone, the bridge is down, and the answer
\* of the endpoint is 404
C20_Witness ==
    /\ edit.pc = "done"
    /\ resp.op \in CrystalEndpoints
    /\ resp.code = 404
    /\ edit.found.report
    /\ ~edit.found.file
    /\ ~edit.bridge_up
    /\ edit.calls = << >>

\* ================================================== HybridStorageService
MaxAttempts == 4      \* calls of get_hybrid_storage_service

\* what the Settings object holds for SUPABASE_URL and SUPABASE_SERVICE_KEY:
\* the class declares neither field, so reading them raises AttributeError
SupabaseSettings == {"undefined"}

\* the object a construction leaves behind
HybridService(supabase_service, sqlite_service) ==
    [supabase_service |-> supabase_service, sqlite_service |-> sqlite_service]

\* SupabaseService.is_available: self.client is not None
is_available(supabase_service) == supabase_service = "client"

\* HybridStorageService.__init__: the error it raises (None when it returns)
\* and the object it built.  supabase_client is what create_client gives
\* ("client", or "raises"), sqlite_ok whether StorageService() initialises.
HybridInit(supabase_settings, supabase_client, sqlite_ok) ==
    IF supabase_settings = "undefined"
    THEN [error |-> Some("AttributeError"), service |-> None]
    ELSE LET supabase_service ==
                 IF supabase_settings = "set" /\ supabase_client = "client"
                 THEN "client" ELSE "none"
         IN IF is_available(supabase_service)
            THEN [error |-> None,
                  service |-> Some(HybridService(supabase_service, "none"))]
            ELSE IF sqlite_ok
            THEN [error |-> None,
                  service |-> Some(HybridService(supabase_service, "sqlite"))]
            ELSE IF supabase_service = "none"
            THEN [error |-> Some("No storage service available"),
                  service |-> None]
            ELSE [error |-> None,
                  service |-> Some(HybridService(supabase_service, "none"))]

\* the active_service property
active_service(service) ==
    IF is_available(service.supabase_service)
    THEN service.supabase_service
    ELSE service.sqlite_service

\* one call of get_hybrid_storage_service and what it met
HybridAttempt(supabase_client, sqlite_ok, error) ==
    [supabase_client |-> supabase_client, sqlite_ok |-> sqlite_ok,
     error |-> error]

\* the module of the selector: the singleton and the calls made so far
HybridModule(singleton, attempts) ==
    [pc |-> "hybrid", singleton |-> singleton, attempts |-> attempts]

HybridResponse(code, active) ==
    [op |-> "get_hybrid_storage_service", id |-> 0, code |-> code,
     active |-> active]

\* get_hybrid_storage_service: construct the singleton unless it exists
get_hybrid_storage_service ==
    /\ edit.pc = "hybrid"
    /\ Len(edit.attempts) < MaxAttempts
    /\ \E supabase_settings \in SupabaseSettings,
          supabase_client \in {"client", "raises"}, sqlite_ok \in BOOLEAN :
          LET built == IF edit.singleton # None
                       THEN [error |-> None, service |-> edit.singleton]
                       ELSE HybridInit(supabase_settings, supabase_client,
                                       sqlite_ok)
          IN /\ edit' = HybridModule(built.service,
                            Append(edit.attempts,
                                   HybridAttempt(supabase_client, sqlite_ok,
                                                 built.error)))
             /\ resp' = IF built.error # None
                        THEN HybridResponse(500, "none")
                        ELSE HybridResponse(200,
                                            active_service(built.service[1]))
    /\ UNCHANGED parseFrame

InitHybrid ==
    /\ reports = << >>
    /\ change_log = << >>
    /\ files = {}
    /\ backups = [id \in ReportIds |-> 0]
    /\ nextReport = 1
    /\ bg = [id \in ReportIds |-> IdleTask]
    /\ history = [id \in ReportIds |-> {}]
    /\ edit = HybridModule(None, << >>)
    /\ nextEntry = 1
    /\ resp = NoResp

NextHybrid == get_hybrid_storage_service

SpecHybrid == InitHybrid /\ [][NextHybrid]_vars

IsPrefixOf(a, b) == Len(a) <= Len(b) /\ a = SubSeq(b, 1, Len(a))

\* C22: within one apply call the patches are processed in the order
\* supplied; a failed patch is recorded as failed and the remaining patches
\* are still processed; what was recorded for earlier patches is never
\* removed or altered by a later failure.
C22_PatchOrderKept ==
    [][ (edit.pc = "applying" /\ edit' # edit
           /\ (edit'.pc = "applying" \/ resp'.result # None)) =>
          LET after == IF edit'.pc = "applying" THEN edit' ELSE resp'.result[1]
              patch == edit.patches[edit.i]
              entries == after.change_log_entries
          IN /\ edit.i = Len(edit.change_log_entries) + 1
             /\ IsPrefixOf(edit.applied_patches, after.applied_patches)
             /\ IsPrefixOf(edit.failed_patches, after.failed_patches)
             /\ IsPrefixOf(edit.change_log_entries, entries)
             /\ Len(entries) = edit.i
             /\ entries[edit.i].patch_id = patch.id
             /\ entries[edit.i].success
                   <=> after.applied_patches =
                          Append(edit.applied_patches, patch.id)
             /\ ~entries[edit.i].success
                   <=> /\ Len(after.failed_patches) = Len(edit.failed_patches) + 1
                       /\ after.failed_patches[Len(after.failed_patches)].patch_id
                             = patch.id
             /\ edit.i < Len(edit.patches)
                   => (edit'.pc = "applying" /\ edit'.i = edit.i + 1
                       /\ edit'.patches = edit.patches)
      ]_vars

\* the first patch failed, the second was applied after it
C22_Witness ==
    /\ resp.op = "apply"
    /\ resp.result # None
    /\ resp.result[1].failed_patches = << [patch_id |-> 1, error |-> "patch failed"] >>
    /\ resp.result[1].applied_patches = << 2 >>
    /\ Len(resp.result[1].change_log_entries) = 2
    /\ ~resp.result[1].change_log_entries[1].success
    /\ resp.result[1].change_log_entries[2].success

\* ------------------------------------------------------------------ C23
\* one step of the background task of report id
BgStep(id) ==
    \/ BgStart(id)
    \/ BgParseOk(id)
    \/ BgParseFail(id)
    \/ BgStoreMetadata(id)
    \/ BgSetReady(id)
    \/ BgLogSuccess(id)
    \/ BgSetError(id)

\* the event loop runs every scheduled background task to its end: a task
\* that can take a step eventually takes one
SpecFair == Init /\ [][Next]_vars /\ \A id \in ReportIds : WF_vars(BgStep(id))

\* C23: under fair scheduling every report whose upload succeeded and that
\* is not deleted eventually has stored status ready or error, whichever
\* step of the background task fails.
C23_EventuallyTerminal ==
    \A id \in ReportIds :
        [](bg[id].pc = "scheduled" =>
              <>(id \notin DOMAIN reports
                   \/ reports[id].status \in {READY, ERROR}))

C25_PreviewNoSideEffect ==
    [][ resp'.op = "preview" =>
          /\ reports' = reports
          /\ change_log' = change_log
          /\ files' = files
          /\ backups' = backups
          /\ resp'.result # None =>
                /\ Some(resp'.result[1].metadata) = get_metadata(reports, resp'.id)
                /\ get_metadata(reports', resp'.id) = get_metadata(reports, resp'.id)
      ]_vars

\* a preview whose copy differs from the metadata it was computed from
C25_Witness ==
    /\ resp.op = "preview"
    /\ resp.code = 200
    /\ resp.result # None
    /\ resp.result[1].preview_metadata # resp.result[1].metadata
    /\ Some(resp.result[1].metadata) = get_metadata(reports, resp.id)

\* ------------------------------------------------------------------ C26
\* the before-value an entry has when it is computed from metadata
BeforeValueIn(metadata, entry) ==
    LET field == _find_field_by_id(metadata, entry.field_id) IN
    IF field = None THEN None
    ELSE BeforeValue(field[1], [operation |-> entry.operation])

\* C26: apply never writes field state back to Storage: the metadata stored
\* for a report stays the metadata the parse produced, so the before-value
\* of every change-log entry is the field's parsed state, also when earlier
\* applied patches targeted the same field.
C26_ApplyNeverWritesBack ==
    [][ \A id \in ReportIds :
          (id \in DOMAIN reports /\ id \in DOMAIN reports') =>
             /\ reports'[id].metadata_json = reports[id].metadata_json
             /\ \A k \in 1..Len(change_log') :
                   change_log'[k].report_id = id =>
                      change_log'[k].before_value =
                         BeforeValueIn(get_metadata(reports, id)[1],
                                       change_log'[k])
      ]_vars

\* hide and then show of the same field were applied and logged: both
\* entries carry the parsed visibility
C26_Witness ==
    /\ Len(change_log) = 2
    /\ change_log[1].success /\ change_log[2].success
    /\ change_log[1].field_id = "F1" /\ change_log[2].field_id = "F1"
    /\ change_log[1].operation = "hide" /\ change_log[2].operation = "show"
    /\ change_log[1].before_value = Some([visible |-> TRUE])
    /\ change_log[2].before_value = Some([visible |-> TRUE])
    /\ resp.op = "apply" /\ resp.raised = {}

\* ------------------------------------------------------------------ C27
\* C27: every model call attempt of an LLM query emits one LLM-request log
\* event carrying the model that was called and its success or failure: a
\* failed primary attempt followed by a fallback emits a failure event
\* naming the primary model, and when both attempts fail a failure event is
\* emitted for each of the two models.
C27_LogPerAttempt ==
    edit.pc \in {"primary", "fallback", "done"} =>
       /\ Len(edit.log) = Len(edit.calls)
       /\ \A i \in 1..Len(edit.calls) :
             /\ edit.log[i].model = edit.calls[i].model
             /\ edit.log[i].success = (AttemptError(edit.calls[i].outcome) = None)

\* ==================================================== CrystalBridgeService
\* what the HTTP client of one bridge call meets: a timeout, a transport
\* error, or a response with its status code and the flags of its JSON body
HttpTimeout == [kind |-> "timeout", status_code |-> 0, success |-> FALSE,
                data |-> FALSE]

HttpTransportError == [kind |-> "transport_error", status_code |-> 0,
                       success |-> FALSE, data |-> FALSE]

HttpResponse(status_code, success, data) ==
    [kind |-> "response", status_code |-> status_code, success |-> success,
     data |-> data]

HttpOutcomes ==
    { HttpTimeout, HttpTransportError, HttpResponse(500, FALSE, FALSE) }
        \cup { HttpResponse(200, s, d) : s \in BOOLEAN, d \in BOOLEAN }

BridgeOperations ==
    { "generate_preview", "extract_metadata", "modify_field",
      "validate_report", "export_report", "health_check" }

\* how a bridge method ends: it returns value, or it raises error
Returned(value) == [raised |-> None, value |-> Some(value)]

Raised(error) == [raised |-> Some(error), value |-> None]

\* the operations that take a report path check it before they open a client
ChecksFile(operation) == operation # "health_check"

\* generate_preview and export_report: the content for 200, RuntimeError for
\* a timeout and for any other status; every other exception is re-raised
generate_preview(outcome) ==
    CASE outcome.kind = "timeout" -> Raised("RuntimeError")
      [] outcome.kind = "transport_error" -> Raised("ConnectError")
      [] outcome.status_code = 200 -> Returned("content")
      [] OTHER -> Raised("RuntimeError")

export_report(outcome) ==
    CASE outcome.kind = "timeout" -> Raised("RuntimeError")
      [] outcome.kind = "transport_error" -> Raised("ConnectError")
      [] outcome.status_code = 200 -> Returned("content")
      [] OTHER -> Raised("RuntimeError")

\* extract_metadata: also raises when the body says success = false
extract_metadata(outcome) ==
    CASE outcome.kind = "timeout" -> Raised("RuntimeError")
      [] outcome.kind = "transport_error" -> Raised("ConnectError")
      [] outcome.status_code = 200 ->
            IF outcome.success THEN Returned("metadata")
            ELSE Raised("RuntimeError")
      [] OTHER -> Raised("RuntimeError")

\* a modify_field that lets the exception of a failed call escape
modify_field_raising(file_exists, outcome) ==
    CASE ~file_exists -> Raised("FileNotFoundError")
      [] outcome.kind = "timeout" -> Raised("RuntimeError")
      [] outcome.kind = "transport_error" -> Raised("ConnectError")
      [] outcome.status_code = 200 -> Returned(outcome.success /\ outcome.data)
      [] OTHER -> Returned(FALSE)

\* modify_field: the FileNotFoundError it raises itself and every other
\* exception end in return False
modify_field(file_exists, outcome) ==
    CASE ~file_exists -> Returned(FALSE)
      [] outcome.kind \in {"timeout", "transport_error"} -> Returned(FALSE)
      [] outcome.status_code = 200 -> Returned(outcome.success /\ outcome.data)
      [] OTHER -> Returned(FALSE)

validate_report(outcome) ==
    CASE outcome.kind \in {"timeout", "transport_error"} -> Returned(FALSE)
      [] outcome.status_code = 200 -> Returned(outcome.success /\ outcome.data)
      [] OTHER -> Returned(FALSE)

health_check(outcome) ==
    CASE outcome.kind \in {"timeout", "transport_error"} -> Returned(FALSE)
      [] OTHER -> Returned(outcome.status_code = 200)

\* the end of an operation for a report file that is not on disk
MissingFileResult(operation) ==
    CASE operation = "modify_field" -> modify_field(FALSE, HttpTimeout)
      [] operation = "validate_report" -> Returned(FALSE)
      [] OTHER -> Raised("FileNotFoundError")

\* the end of an operation whose request met outcome
RequestResult(operation, outcome) ==
    CASE operation = "generate_preview" -> generate_preview(outcome)
      [] operation = "extract_metadata" -> extract_metadata(outcome)
      [] operation = "modify_field" -> modify_field(TRUE, outcome)
      [] operation = "validate_report" -> validate_report(outcome)
      [] operation = "export_report" -> export_report(outcome)
      [] OTHER -> health_check(outcome)

\* the locals of one bridge call: the operation, the report, what its
\* request will meet, and the requests sent so far
BridgeCall(pc, operation, id, outcome, requests) ==
    [pc |-> pc, operation |-> operation, id |-> id, outcome |-> outcome,
     requests |-> requests]

BridgeResponse(operation, id, result) ==
    [op |-> operation, id |-> id, code |-> 0, result |-> result]

\* the method up to its request: abs_path.exists(), then client.post / get
BridgeEnter ==
    /\ edit.pc = "bridge_call"
    /\ IF ChecksFile(edit.operation) /\ edit.id \notin files
       THEN /\ edit' = [edit EXCEPT !.pc = "bridge_done"]
            /\ resp' = BridgeResponse(edit.operation, edit.id,
                                      MissingFileResult(edit.operation))
       ELSE /\ edit' = [edit EXCEPT !.pc = "bridge_sent",
                                    !.requests = Append(@, edit.operation)]
            /\ resp' = NoResp
    /\ UNCHANGED << reports, change_log, files, backups, nextReport, bg,
                    history, nextEntry >>

\* the request ends and the method returns or raises
BridgeLeave ==
    /\ edit.pc = "bridge_sent"
    /\ edit' = [edit EXCEPT !.pc = "bridge_done"]
    /\ resp' = BridgeResponse(edit.operation, edit.id,
                              RequestResult(edit.operation, edit.outcome))
    /\ UNCHANGED << reports, change_log, files, backups, nextReport, bg,
                    history, nextEntry >>

\* one call of a bridge operation for the file of a parsed report, which is
\* on disk or gone
InitBridge ==
    /\ reports = store_metadata(
                     update_report_status(
                         create_report_record(<< >>, 1), 1, READY, None),
                     1, CHOOSE m \in ParsedMetadatas(1) : TRUE)
    /\ change_log = << >>
    /\ files \in { {}, {1} }
    /\ backups = [id \in ReportIds |-> 0]
    /\ nextReport = 2
    /\ bg = [id \in ReportIds |->
                IF id = 1 THEN [IdleTask EXCEPT !.pc = "done"] ELSE IdleTask]
    /\ history = [id \in ReportIds |->
                     IF id = 1 THEN {UPLOADING, READY} ELSE {}]
    /\ \E operation \in BridgeOperations, outcome \in HttpOutcomes :
          edit = BridgeCall("bridge_call", operation, 1, outcome, << >>)
    /\ nextEntry = 1
    /\ resp = NoResp

NextBridge ==
    \/ BridgeEnter
    \/ BridgeLeave

SpecBridge == InitBridge /\ [][NextBridge]_vars

\* ------------------------------------------------------------------ C28
\* the call of a bridge operation failed: the file is missing, or the
\* request timed out, met a transport error, a status other than 200, or
\* (where the body is read) a remote success flag that is false
BridgeFailure(operation, file_exists, outcome) ==
    \/ ChecksFile(operation) /\ ~file_exists
    \/ outcome.kind # "response"
    \/ outcome.status_code # 200
    \/ operation \in {"modify_field", "validate_report"} /\ ~outcome.success

\* C28: modify-field, validate and health-check never raise and return
\* false for every failure; preview, export and metadata extraction raise
\* for a missing file, a timeout or a non-200 response; a missing report
\* file is detected before any network request is sent, and no operation is
\* retried.
C28_BridgeFailures ==
    /\ edit.pc \in {"bridge_call", "bridge_sent", "bridge_done"}
    /\ Len(edit.requests) <= 1
    /\ (ChecksFile(edit.operation) /\ edit.id \notin files) => edit.requests = << >>
    /\ edit.pc = "bridge_done" =>
          /\ resp.op = edit.operation
          /\ edit.operation \in {"modify_field", "validate_report", "health_check"} =>
                /\ resp.result.raised = None
                /\ BridgeFailure(edit.operation, edit.id \in files, edit.outcome)
                      => resp.result.value = Some(FALSE)
          /\ (/\ edit.operation \in {"generate_preview", "export_report",
                                      "extract_metadata"}
              /\ \/ edit.id \notin files
                 \/ edit.outcome.kind = "timeout"
                 \/ (edit.outcome.kind = "response"
                       /\ edit.outcome.status_code # 200))
                => resp.result.raised # None

\* modify_field for a file that is gone: false, and no request was sent
C28_Witness ==
    /\ edit.pc = "bridge_done"
    /\ edit.operation = "modify_field"
    /\ edit.id \notin files
    /\ edit.requests = << >>
    /\ resp.result = Returned(FALSE)

\* ------------------------------------------------------------------ C29
\* the row of report id was created and is gone: delete_report removed it
Deleted(rs, id) == history[id] # {} /\ id \notin DOMAIN rs

\* C29: a deletion that interleaves with the background parse of the same
\* report is final: once the row is deleted no later step of the background
\* task (store metadata, set status ready, set status error) makes a row, a
\* status or metadata of the report exist again, and status lookups of it
\* keep answering not found.
C29_DeletionFinal ==
    [][ \A id \in ReportIds :
          Deleted(reports, id) =>
             /\ id \notin DOMAIN reports'
             /\ get_report_status(reports', id) = None
             /\ get_metadata(reports', id) = None
             /\ (resp'.op = "status" /\ resp'.id = id) => resp'.code = 404
      ]_vars

\* the report was deleted while its task was parsing; the task has since
\* stored, failed and ended, and a status lookup answers not found
C29_Witness ==
    /\ Deleted(reports, 1)
    /\ history[1] = {UPLOADING}
    /\ bg[1].pc = "done"
    /\ bg[1].metadata # None
    /\ resp.op = "status" /\ resp.id = 1 /\ resp.code = 404

\* ------------------------------------------------------------------ C30
\* C30: in every reachable state every change_log row refers to a report
\* row that exists, also when a deletion interleaves with an apply request
\* in flight for the same report: no entry is persisted for a report after
\* the report has been deleted.
C30_ChangeLogRefersToReport ==
    \A k \in 1..Len(change_log) : change_log[k].report_id \in DOMAIN reports

====
